---- MODULE Spec2Model ----
(***************************************************************************)
(* Taskloom: one scope-creating call (runInScope, sync, race, rush, branch,*)
(* spawn, spawnScope) or a series of spawn.task calls, the callback it     *)
(* runs, the tasks the callback starts, and the event-loop steps on which  *)
(* the promises involved settle.                                           *)
(*                                                                         *)
(* Every action is one run-to-completion step of the event loop: a         *)
(* promise reaction, a resumption of an async function, or an abort event  *)
(* with its synchronously dispatched listeners.  Tasks are numbered in     *)
(* creation order, so tasks = <<1, 2, ..., n>> is the array the            *)
(* combinators hand to Promise.all / Promise.race / Promise.allSettled.    *)
(* Tasks started through a context are created by taskImpl / runTask with  *)
(* { signal: scope.signal } and no parentTask (RunTaskOptions.parentTask   *)
(* is documented as "omit when the parent is a scope").                    *)
(* Tasks are started by the callback while it executes (in its synchronous *)
(* prefix or after one of its awaits).                                     *)
(* The call is made inside an enclosing scope (getCurrentScope() returns   *)
(* it, as under the native AsyncLocalStorage), which itself is nested in   *)
(* an outer scope; neither is aborted when the call is made.               *)
(* Strict mode is disabled in every specification but StrictSpec.          *)
(*                                                                         *)
(* Spec is the combinators' machine with tasks as the contexts start them. *)
(* HandlerSpec is the same machine for runInScope and branch with the      *)
(* Task's options and surface in use: runTask called with lifecycle hooks  *)
(* and with or without parentTask, and onCancel registrations at any time. *)
(* There the callback fulfils, scope.abort is given a reason, and a task's *)
(* work settles while the task runs (a later settlement changes nothing of *)
(* the Task).                                                              *)
(* LoopSpec is one call of branch seen at the level of the job queue: the  *)
(* synchronous run of the branch body, of branch and of the calling code,  *)
(* then the promise jobs in FIFO order, and timers once the queue is       *)
(* empty; the caller awaits the returned promise or not, and the storage   *)
(* is the native one or the ponyfill.                                      *)
(* LiveSpec is Spec with weak fairness on every queued continuation.       *)
(* HelperSpec is runInScope / sync whose callback calls one of the helpers *)
(* bound to the scope (task.sleep, task.timeout, task.retry) and awaits    *)
(* it; HelperLiveSpec adds weak fairness on their timers and reactions.    *)
(* There a task's work fulfils or stays pending, and scope.abort is given  *)
(* a reason.                                                               *)
(* LimiterSpec is a limiter made by task.limit with works submitted,       *)
(* settling, and the scope aborting.  DeadlineSpec is the chain of scope   *)
(* stores with the deadlines nested task.timeout calls publish.            *)
(* StorageSpec is the async-context storage alone: a program of nested     *)
(* run calls with async functions, run over createPonyfillStorage and      *)
(* over AsyncLocalStorage side by side.                                    *)
(* LimiterLiveSpec is LimiterSpec with weak fairness on the settlement of  *)
(* every started work and on its finally reaction.                         *)
(* NestedSpec is Spec started under a parent scope that may already be     *)
(* aborted when the call is made.                                          *)
(* DebugSpec is the debugger's view of combinator calls in flight at once: *)
(* its one scope stack and the events it emits.                            *)
(* StrictSpec is one call (runInScope, race, branch with or without a      *)
(* parent, or a bare runTask) with strict mode on or off and strictModeWarn*)
(* either warning only or throwing StrictModeError.                        *)
(***************************************************************************)
EXTENDS Integers, Sequences, FiniteSets, TLC

\* ---- bounds ----
MaxTasks == 2
MaxHandlers == 2
MaxHooks == 2
MaxRetries == 2
MaxTime == 4
MaxMs == 3
MaxDepth == 3
MaxItems == 3
MaxConcurrency == 2
MaxAwaits == 2

\* combinator calls in flight at once in the debugger's view
MaxScopes == 2

TaskIds == 1..MaxTasks

\* ---- inputs ----
Kinds == {"runInScope", "sync", "race", "rush", "branch", "spawn", "spawnTask", "spawnScope"}
HandlerKinds == {"runInScope", "branch"}
Values == {"v1", "v2"}
Errors == {"E1", "E2"}
CallbackValues == {"cv"}
CallbackErrors == {"CE"}
ParentReasons == {"P1"}
OuterReasons == {"O1"}
UserReasons == {"undefined", "R1"}

\* ---- promise outcomes ----
Pending == [state |-> "pending", val |-> "none"]
Fulfilled(v) == [state |-> "fulfilled", val |-> v]
Rejected(e) == [state |-> "rejected", val |-> e]

ScopeClosed == "scope-closed"

\* {type: "parent-canceled", parent: parentTask}
ParentCanceled == "parent-canceled"

VARIABLES
  kind,         \* which entry point was called
  cb,           \* the callback: "started" | "suspended" | "fulfilled" | "rejected"
  cbResult,     \* value or error the callback's promise settled with
  tasks,        \* task ids in creation order (createSyncContext's tasks array)
  task,         \* task id -> the Task's closure state
  spawned,      \* the Task spawn returns
  aborted,      \* scope.signal.aborted
  reason,       \* scope.signal.reason
  parentAborted,\* the enclosing scope's signal.aborted
  parentReason, \* the enclosing scope's signal.reason
  outerAborted, \* signal.aborted of the scope around the enclosing scope
  entries,      \* store.entries of the scope
  parentEntries,\* store.entries of the enclosing scope
  registered,   \* number of onCancel calls made so far
  pc,           \* position of the combinator's own async function
  allLen,       \* length of tasks when sync called Promise.all(tasks)
  raceAt,       \* number of settled tasks when race/rush called Promise.race(tasks)
  fnOutcome,    \* outcome of the function handed to runInScope / runTask
  outcome,      \* the promise returned to the caller
  settleSeq,    \* history: task ids in the order their awaitable settled
  runningAt,    \* history: task id -> tasks still running when it settled
  closeRunning, \* history: tasks still running when the combinator closed the scope
  parentRunning,\* history: tasks still running when the enclosing scope aborted
  stack,        \* the code on the call stack: "body" | "branch" | "caller" | "idle"
  mq,           \* the promise job queue
  timers,       \* pending timers: a task's id, or 0 for the promise the body awaits
  awaited,      \* whether the calling code awaits the promise branch returns
  backend,      \* the async-context storage: "native" | "ponyfill"
  log,          \* history: the events of interest, in the order they happened
  helper,       \* the helper the callback called and awaits: "none" | "sleep" | "timeout" | "retry"
  sleep,        \* the closure of the latest sleep(ms, signal) call
  tmo,          \* the closure of the runWithTimeout call
  rty,          \* the frame of the retry call
  lim,          \* the closure of the limiter created by ctx.task.limit
  now,          \* Date.now()
  frames,       \* the scope stores in force, outermost first, with their deadlines
  stor,         \* the async-context storage at work: both implementations, side by side
  dbg,          \* the TaskloomDebugger: its scope stack and the events it emitted
  sm            \* strict mode: whether it is enabled, and the checks that fired

vars == <<kind, cb, cbResult, tasks, task, spawned, aborted, reason, parentAborted,
          parentReason, outerAborted, entries, parentEntries, registered, pc,
          allLen, raceAt, fnOutcome, outcome, settleSeq, runningAt, closeRunning,
          parentRunning, stack, mq, timers, awaited, backend, log, helper, sleep, tmo, rty,
          lim, now, frames, stor, dbg, sm>>

\* what a dispatch of the scope signal's abort event changes
sigVars == <<aborted, reason, task, spawned, settleSeq, runningAt, sleep, lim>>

parentVars == <<parentAborted, parentReason, outerAborted, parentRunning>>

regVars == <<entries, parentEntries, registered>>

loopVars == <<stack, mq, timers, awaited, backend, log>>

helperVars == <<helper, sleep, tmo, rty, lim>>

deadlineVars == <<now, frames>>

\* the variables of the job-queue and deadline views
sideVars == <<loopVars, deadlineVars, stor, dbg, sm>>

\* the combinator call, its callback, its tasks and the scopes around it
coreVars == <<kind, cb, cbResult, tasks, task, spawned, aborted, reason, parentAborted,
              parentReason, outerAborted, entries, parentEntries, registered, pc, allLen,
              raceAt, fnOutcome, outcome, settleSeq, runningAt, closeRunning,
              parentRunning>>

\* what the combinators and tasks leave alone, apart from the abort listeners' state
quietVars == <<sideVars, helper, tmo, rty>>

\* what the combinators and tasks leave alone when they dispatch no abort event
auxVars == <<quietVars, sleep, lim>>

\* ---- Task (runTask) ----
NoTask == [status |-> "none", result |-> "none", error |-> "none", work |-> "none",
           parentTask |-> FALSE, hooks |-> 0, cancelHandlers |-> <<>>,
           registrations |-> 0, events |-> <<>>]

\* one observable call made by the Task: a lifecycle hook (h-th of options.lifecycleHooks,
\* arg = task.status as the hook reads it), an assignment to status, an onCancel
\* handler (h = its registration number on the task, arg = the reason passed), or the
\* settling of thenablePromise, from which on its reactions (an awaiter's
\* continuation) are queued
Event(ev, h, arg) == [ev |-> ev, h |-> h, arg |-> arg]

\* invokeHooks(hooks, fn) for a task with n hooks
invokeHooks(name, tk) == [i \in 1..tk.hooks |-> Event(name, i, tk.status)]

Terminal(tk) == tk.status \in {"completed", "failed", "canceled"}

\* variant: the promise is rejected before the handlers run
transitionToCanceled_RejectFirst(tk, r) ==
  IF tk.status # "running" THEN tk
  ELSE [tk EXCEPT !.status = "canceled", !.error = r,
                  !.events = @ \o invokeHooks("onTaskCancel", tk)
                               \o <<Event("status", 0, "canceled")>>
                               \o <<Event("reject", 0, r)>>
                               \o [i \in 1..Len(tk.cancelHandlers) |->
                                     Event("onCancel", tk.cancelHandlers[i], r)]]

transitionToCanceled(tk, r) ==
  IF tk.status # "running" THEN tk
  ELSE [tk EXCEPT !.status = "canceled", !.error = r,
                  !.events = @ \o invokeHooks("onTaskCancel", tk)
                               \o <<Event("status", 0, "canceled")>>
                               \o [i \in 1..Len(tk.cancelHandlers) |->
                                     Event("onCancel", tk.cancelHandlers[i], r)]
                               \o <<Event("reject", 0, r)>>]

\* variant: the status guard is missing
transitionToCompleted_NoGuard(tk, v) ==
  [tk EXCEPT !.status = "completed", !.result = v]

transitionToCompleted(tk, v) ==
  IF tk.status # "running" THEN tk
  ELSE [tk EXCEPT !.status = "completed", !.result = v,
                  !.events = @ \o invokeHooks("onTaskComplete", tk)
                               \o <<Event("status", 0, "completed")>>
                               \o <<Event("resolve", 0, v)>>]

transitionToFailed(tk, e) ==
  IF tk.status # "running" THEN tk
  ELSE [tk EXCEPT !.status = "failed", !.error = e,
                  !.events = @ \o invokeHooks("onTaskFail", tk)
                               \o <<Event("status", 0, "failed")>>
                               \o <<Event("reject", 0, e)>>]

\* the awaitable surface: thenablePromise as resolved / rejected by the transitions
TaskOutcome(tk) ==
  IF tk.status = "completed" THEN Fulfilled(tk.result)
  ELSE IF tk.status \in {"failed", "canceled"} THEN Rejected(tk.error)
  ELSE Pending

Running == {t \in TaskIds : task[t].status = "running"}

RunningSeq == SelectSeq(tasks, LAMBDA t : task[t].status = "running")

\* options.signal of the tasks: spawn.task passes no signal
TaskSignal == IF kind = "spawnTask" THEN "none" ELSE "scope"

\* the reason the task's listener on options.signal hands to its own controller
parentListenerReason(tk, r) == IF tk.parentTask THEN ParentCanceled ELSE r

\* ---- sleep(ms, signal) ----
\* timer: the setTimeout of the call ("none" | "pending" | "cleared" | "fired");
\* listener: whether onAbort is attached to the signal; promise: the promise
\* returned; settles: the calls of resolve / reject made so far
NoSleep == [timer |-> "none", listener |-> FALSE, promise |-> Pending, settles |-> 0]

\* resolve / reject of a promise: only the first call has an effect
Settle(p, o) == IF p = Pending THEN o ELSE p

\* cleanup(): clearTimeout(id); signal.removeEventListener("abort", onAbort)
sleepCleanup(s) ==
  [s EXCEPT !.timer = IF @ = "pending" THEN "cleared" ELSE @, !.listener = FALSE]

\* variant: onAbort rejects without cleaning up
sleepOnAbort_NoCleanup(s, r) ==
  IF ~s.listener THEN s
  ELSE [s EXCEPT !.promise = Settle(@, Rejected(r)), !.settles = @ + 1]

\* onAbort, dispatched with the abort event whose reason is r:
\* cleanup(); reject(signal.reason)
sleepOnAbort(s, r) ==
  IF ~s.listener THEN s
  ELSE [sleepCleanup(s) EXCEPT !.promise = Settle(@, Rejected(r)), !.settles = @ + 1]

\* ---- runWithTimeout(ms, work, scope, signal) ----
\* {type: "timeout", ms: effectiveMs}
TimeoutReason == "timeout"

\* new Error(`Timeout after ${effectiveMs} ms`) named "TimeoutError"
TimeoutError == "TimeoutError"

\* timer: the setTimeout of the call; listener: whether onAbort is attached to
\* the signal; late: the signal was aborted already when it was attached, so
\* it never runs; work: what the timed work is ("plain": it settles on its
\* own, "sleep": it returns sleep(d, signal)); workP: the promise of a plain
\* work; tp: timeoutPromise; race: what Promise.race had settled with when the
\* timer fired; promise: the promise returned
NoTimeout == [pc |-> "none", timer |-> "none", listener |-> FALSE, late |-> FALSE,
              work |-> "none", workP |-> Pending, tp |-> Pending, race |-> Pending,
              promise |-> Pending]

\* ---- retry(fn, options, signal) ----
\* attempt: the loop variable; calls: invocations of fn so far; inflight:
\* invocations whose promise has not settled; fnP: the promise of the latest
\* invocation; inAbort: history, whether the signal was aborted when fnP
\* settled; promise: the promise returned
NoRetry == [pc |-> "none", maxRetries |-> 0, attempt |-> 0, calls |-> 0, inflight |-> 0,
            fnP |-> Pending, inAbort |-> FALSE, promise |-> Pending]

\* ---- createLimiter(signal, options) ----
ItemIds == 1..MaxItems

\* one call of the limiter.  st: "none" (not made) | "refused" (rejected at
\* the call) | "queued" | "running" | "drained" (rejected out of the queue) |
\* "done"; invoked: work(signal) was called; work: the promise it returned;
\* promise: the promise limit returned; history: called / started: whether
\* the signal was aborted when limit was called / when work was invoked
NoItem == [st |-> "none", invoked |-> FALSE, work |-> Pending, promise |-> Pending,
           called |-> FALSE, started |-> FALSE]

\* queue: ids of the waiting items, oldest first; active: the counter;
\* history: order, the ids in the order their work was invoked
NoLimiter == [concurrency |-> 1, cancelQueuedOnAbort |-> TRUE, queue |-> <<>>,
              active |-> 0, items |-> [i \in ItemIds |-> NoItem], order |-> <<>>]

\* while (queue.length > 0) { queue.shift().reject(reason) }
limiterDrain(l, r) ==
  [l EXCEPT !.queue = <<>>,
            !.items = [i \in ItemIds |->
                         IF \E k \in 1..Len(l.queue) : l.queue[k] = i
                         THEN [@[i] EXCEPT !.st = "drained", !.promise = Settle(@, Rejected(r))]
                         ELSE @[i]]]

\* variant: the limiter has no abort listener
limiterOnAbort_NoDrain(l, r) == l

\* the abort listener createLimiter installs if (cancelQueuedOnAbort)
limiterOnAbort(l, r) == IF l.cancelQueuedOnAbort THEN limiterDrain(l, r) ELSE l

\* ---- AbortController of the scope ----
\* variant: a second abort replaces the reason and dispatches again
controllerAbort_NotIdempotent(r) ==
  /\ aborted' = TRUE
  /\ reason' = r
  /\ spawned' = transitionToCanceled(spawned, parentListenerReason(spawned, r))
  /\ task' = [t \in TaskIds |->
                transitionToCanceled(task[t], parentListenerReason(task[t], r))]
  /\ settleSeq' = settleSeq \o RunningSeq
  /\ runningAt' = [t \in TaskIds |->
                     IF t \in Running THEN Running \ {t} ELSE runningAt[t]]
  /\ sleep' = sleepOnAbort(sleep, r)
  /\ lim' = limiterOnAbort(lim, r)

\* abort is idempotent; the first abort fixes the reason and dispatches the
\* listeners the tasks installed on scope.signal, in creation order; each
\* aborts its task's own controller, whose listener calls transitionToCanceled.
controllerAbort(r) ==
  IF aborted
  THEN UNCHANGED sigVars
  ELSE /\ aborted' = TRUE
       /\ reason' = r
       /\ spawned' = transitionToCanceled(spawned, parentListenerReason(spawned, r))
       /\ task' = [t \in TaskIds |->
                     transitionToCanceled(task[t], parentListenerReason(task[t], r))]
       /\ settleSeq' = settleSeq \o RunningSeq
       /\ runningAt' = [t \in TaskIds |->
                          IF t \in Running THEN Running \ {t} ELSE runningAt[t]]
       /\ sleep' = sleepOnAbort(sleep, r)
       /\ lim' = limiterOnAbort(lim, r)

\* ---- scope storage ----
\* the store getStore() returns while the callback runs: spawnScope installs
\* none, and spawn.task is called by the enclosing scope's own code
CurrentStore == IF kind \in {"spawnTask", "spawnScope"} THEN "parent" ELSE "scope"

\* variant: the task is registered with the current store whatever its signal
registerScopeTask_AnySignal(signal, store, id) ==
  IF store = "scope"
  THEN /\ entries' = Append(entries, id)
       /\ UNCHANGED parentEntries
  ELSE /\ parentEntries' = Append(parentEntries, id)
       /\ UNCHANGED entries

\* store.entries.push(entry) when signal === store.scope.signal
registerScopeTask(signal, store, id) ==
  IF store = "scope" /\ signal = "scope"
  THEN /\ entries' = Append(entries, id)
       /\ UNCHANGED parentEntries
  ELSE IF store = "parent" /\ signal = "parent"
  THEN /\ parentEntries' = Append(parentEntries, id)
       /\ UNCHANGED entries
  ELSE UNCHANGED <<entries, parentEntries>>

\* the Task spawn returns has id 0 in store entries
SpawnedId == 0

\* runTask up to "workPromise = work(signal)" as spawn calls it
spawnRunTask == [NoTask EXCEPT !.status = "running", !.work = "pending"]

\* no helper has been called
HelperIdle ==
  /\ helper = "none"
  /\ sleep = NoSleep
  /\ tmo = NoTimeout
  /\ rty = NoRetry
  /\ lim = NoLimiter

\* the state after the call has created its scope and invoked the callback
CoreInit ==
  /\ cb = "started"
  /\ cbResult = "none"
  /\ tasks = <<>>
  /\ task = [t \in TaskIds |-> NoTask]
  /\ spawned = IF kind = "spawn" THEN spawnRunTask ELSE NoTask
  /\ aborted = FALSE
  /\ reason = "none"
  /\ parentAborted = FALSE
  /\ parentReason = "none"
  /\ outerAborted = FALSE
  /\ entries = <<>>
  /\ parentEntries = <<>>
  /\ registered = 0
  /\ pc = "callback"
  /\ allLen = 0
  /\ raceAt = 0
  /\ fnOutcome = Pending
  /\ outcome = Pending
  /\ settleSeq = <<>>
  /\ runningAt = [t \in TaskIds |-> {}]
  /\ closeRunning = {}
  /\ parentRunning = {}

\* the job-queue view is not in use
LoopIdle ==
  /\ stack = "idle"
  /\ mq = <<>>
  /\ timers = {}
  /\ awaited = FALSE
  /\ backend = "native"
  /\ log = <<>>

\* no deadline is published
DeadlineIdle ==
  /\ now = 1
  /\ frames = <<>>

\* getStore() with no run around: undefined
NoStore == "undefined"

\* the handlers wrapPromise attached to the promise of fn: none yet
NoReaction == [registered |-> FALSE, prev |-> NoStore]

\* the program under the storage: fn1 and fn2 are async functions with
\* awaits[i] awaits that return or throw; fn1 calls run(S2, fn2) in its
\* segment nestAt (-1: never)
NoProgram == [awaits |-> <<0, 0>>, ends |-> <<"return", "return">>, nestAt |-> -1]

\* createPonyfillStorage's "current" and the AsyncLocalStorage context of the
\* running code, the microtask queue, the state of the promises of fn1 and fn2,
\* and what getStore() returned where
NoStorage == [phase |-> "idle", prog |-> NoProgram, current |-> NoStore, als |-> NoStore,
              jobs |-> <<>>, settled |-> <<FALSE, FALSE>>,
              reaction |-> <<NoReaction, NoReaction>>, seen |-> {}]

StorageIdle == stor = NoStorage

CombIds == 1..MaxScopes

\* the combinators that push their scope when called and pop it when their promise settles
DebugKinds == {"sync", "race"}

\* the debugger is enabled with a subscriber; no scope has been pushed
NoDebugger == [scopeStack |-> <<>>, nextScopeId |-> 0, nextTaskId |-> 0,
               events |-> <<>>,
               combs |-> [c \in CombIds |-> [st |-> "none", type |-> "none", scopeId |-> 0]]]

DebugIdle == dbg = NoDebugger

StrictModeError == "StrictModeError"

\* the two versions of strictModeWarn: the one that only warns and the one
\* that warns and then throws StrictModeError
StrictPolicies == {"warn", "throw"}

\* the calls followed under strict mode; "runTask" is top-level code that
\* calls runTask without a signal outside any scope
StrictCalls == {"runInScope", "race", "branch", "branchNoParent", "runTask"}

\* strict mode is off (the default) and no check has fired.  warned: the
\* call sites of strictModeWarn that fired; thrown: where a StrictModeError
\* surfaced other than as the rejection of the call's promise; st, nh: the
\* status and the number of onCancel handlers of the scope's tasks; first:
\* the task whose thenable settled first
NoStrict == [enabled |-> FALSE, policy |-> "warn", warned |-> {}, thrown |-> {},
             call |-> "none", pc |-> "idle", fn |-> "none", aborted |-> FALSE,
             st |-> [t \in TaskIds |-> "none"], nh |-> [t \in TaskIds |-> 0],
             first |-> 0, promise |-> Pending]

StrictIdle == sm = NoStrict

Init ==
  /\ kind \in Kinds
  /\ CoreInit
  /\ LoopIdle
  /\ HelperIdle
  /\ DeadlineIdle
  /\ StorageIdle
  /\ DebugIdle
  /\ StrictIdle

\* variant: parentTask is ignored when the signal is already aborted
bornCanceledReason_SignalOnly(pt) == reason

\* the reason of a task whose options.signal is already aborted
bornCanceledReason(pt) == IF pt THEN ParentCanceled ELSE reason

\* runTask(work, options) called by the callback: through ctx.task with
\* {signal: scope.signal}, through spawn.task with {}, or directly with
\* parentTask and nh lifecycle hooks as well
runTask(pt, nh) ==
  /\ cb \in {"started", "suspended"}
  /\ Len(tasks) < MaxTasks
  /\ LET t == Len(tasks) + 1
         new == [NoTask EXCEPT !.status = "running", !.parentTask = pt, !.hooks = nh]
     IN
       /\ tasks' = Append(tasks, t)
       /\ IF TaskSignal = "scope" /\ aborted
          THEN /\ task' = [task EXCEPT ![t] =
                   transitionToCanceled(
                     [new EXCEPT !.events = invokeHooks("onTaskCancel", new)],
                     bornCanceledReason(pt))]
               /\ settleSeq' = Append(settleSeq, t)
               /\ runningAt' = [runningAt EXCEPT ![t] = Running]
          ELSE /\ task' = [task EXCEPT ![t] =
                   [new EXCEPT !.work = "pending",
                               !.events = invokeHooks("onTaskStart", new)]]
               /\ UNCHANGED <<settleSeq, runningAt>>
       /\ registerScopeTask(TaskSignal, CurrentStore, t)
  /\ UNCHANGED <<auxVars, kind, cb, cbResult, spawned, aborted, reason, parentVars, registered,
                 pc, allLen, raceAt, fnOutcome, outcome, closeRunning>>

\* work(signal).then(transitionToCompleted, ...): the work promise fulfils with v
workFulfil(t, v) ==
  /\ task[t].work = "pending"
  /\ task' = [task EXCEPT ![t] = [transitionToCompleted(task[t], v) EXCEPT !.work = "settled"]]
  /\ IF task[t].status = "running"
     THEN /\ settleSeq' = Append(settleSeq, t)
          /\ runningAt' = [runningAt EXCEPT ![t] = Running \ {t}]
     ELSE UNCHANGED <<settleSeq, runningAt>>
  /\ UNCHANGED <<auxVars, kind, cb, cbResult, tasks, spawned, aborted, reason, parentVars, regVars,
                 pc, allLen, raceAt, fnOutcome, outcome, closeRunning>>

\* work(signal).then(..., transitionToFailed): the work promise rejects with e
workReject(t, e) ==
  /\ task[t].work = "pending"
  /\ task' = [task EXCEPT ![t] = [transitionToFailed(task[t], e) EXCEPT !.work = "settled"]]
  /\ IF task[t].status = "running"
     THEN /\ settleSeq' = Append(settleSeq, t)
          /\ runningAt' = [runningAt EXCEPT ![t] = Running \ {t}]
     ELSE UNCHANGED <<settleSeq, runningAt>>
  /\ UNCHANGED <<auxVars, kind, cb, cbResult, tasks, spawned, aborted, reason, parentVars, regVars,
                 pc, allLen, raceAt, fnOutcome, outcome, closeRunning>>

\* ---- the callback ----
\* callback(ctx) has returned its promise to the caller.  sync goes on
\* synchronously to Promise.all(tasks), which iterates the array as it is
\* now; branch returns Promise.resolve(); inside spawn, runTask goes on to
\* registerScopeTask with the caller's store; runInScope, race, rush and
\* spawnScope await the callback's promise.
callbackReturned ==
  IF kind = "sync"
  THEN /\ pc' = "awaitAll"
       /\ allLen' = Len(tasks)
       /\ UNCHANGED <<outcome, entries, parentEntries>>
  ELSE IF kind = "branch"
  THEN /\ pc' = "returned"
       /\ outcome' = Fulfilled("undefined")
       /\ UNCHANGED <<allLen, entries, parentEntries>>
  ELSE IF kind = "spawn"
  THEN /\ registerScopeTask("scope", "parent", SpawnedId)
       /\ UNCHANGED <<pc, allLen, outcome>>
  ELSE UNCHANGED <<pc, allLen, outcome, entries, parentEntries>>

\* the callback reaches its first await
callbackSuspend ==
  /\ cb = "started"
  /\ cb' = "suspended"
  /\ callbackReturned
  /\ UNCHANGED <<auxVars, kind, cbResult, tasks, task, spawned, aborted, reason, parentVars,
                 registered, raceAt, fnOutcome, settleSeq, runningAt, closeRunning>>

callbackFulfil(v) ==
  /\ cb \in {"started", "suspended"}
  /\ cb' = "fulfilled"
  /\ cbResult' = v
  /\ IF cb = "started"
     THEN callbackReturned
     ELSE UNCHANGED <<pc, allLen, outcome, entries, parentEntries>>
  /\ UNCHANGED <<auxVars, kind, tasks, task, spawned, aborted, reason, parentVars,
                 registered, raceAt, fnOutcome, settleSeq, runningAt, closeRunning>>

callbackReject(e) ==
  /\ cb \in {"started", "suspended"}
  /\ cb' = "rejected"
  /\ cbResult' = e
  /\ IF cb = "started"
     THEN callbackReturned
     ELSE UNCHANGED <<pc, allLen, outcome, entries, parentEntries>>
  /\ UNCHANGED <<auxVars, kind, tasks, task, spawned, aborted, reason, parentVars,
                 registered, raceAt, fnOutcome, settleSeq, runningAt, closeRunning>>

\* new Error("race: callback did not start any tasks") and its rush twin
NoTasksError ==
  IF kind = "race" THEN "race: callback did not start any tasks"
  ELSE "rush: callback did not start any tasks"

CallbackOutcome ==
  IF cb = "fulfilled" THEN Fulfilled(cbResult)
  ELSE IF cb = "rejected" THEN Rejected(cbResult)
  ELSE Pending

\* ---- aborts from outside the combinator ----
\* Scope.abort(reason?): createScope (runInScope, and sync and rush through it)
\* substitutes {type:"user-abort"} for a missing reason; the scope objects
\* race, branch, spawn and spawnScope build pass the reason straight to
\* controller.abort, where a missing reason becomes an AbortError.
abortReason(r) ==
  IF r # "undefined" THEN r
  ELSE IF kind \in {"runInScope", "sync", "rush"} THEN "user-abort" ELSE "AbortError"

\* the callback or a task's work calls scope.abort(r); spawn.task has no scope
scopeAbort(r) ==
  /\ kind # "spawnTask"
  /\ cb \in {"started", "suspended"} \/ \E t \in TaskIds : task[t].work = "pending"
  /\ controllerAbort(abortReason(r))
  /\ UNCHANGED <<quietVars, kind, cb, cbResult, tasks, parentVars, regVars, pc, allLen, raceAt,
                 fnOutcome, outcome, closeRunning>>

\* variant: spawnScope and spawn.task tasks are tied to the enclosing scope too
Linked_Always == TRUE

\* the scope has a listener on the enclosing scope's signal: runInScope with
\* parentScope, race, branch, spawn; spawnScope adds none and spawn.task has
\* no scope
Linked == kind \notin {"spawnTask", "spawnScope"}

\* variant: the listener closes the scope instead of handing on the parent's reason
parentListener_ScopeClosed(r) ==
  IF Linked THEN controllerAbort(ScopeClosed) ELSE UNCHANGED sigVars

\* variant: the listener aborts without handing on the parent's reason
parentListener_NoReason(r) ==
  IF Linked THEN controllerAbort("AbortError") ELSE UNCHANGED sigVars

\* () => controller.abort(parentScope.signal.reason), {once: true}
parentListener(r) ==
  IF Linked THEN controllerAbort(r) ELSE UNCHANGED sigVars

\* the enclosing scope aborts or closes with reason r
parentAbort(r) ==
  /\ ~parentAborted
  /\ parentAborted' = TRUE
  /\ parentReason' = r
  /\ parentRunning' = Running
  /\ parentListener(r)
  /\ UNCHANGED <<quietVars, kind, cb, cbResult, tasks, outerAborted, regVars, pc, allLen, raceAt,
                 fnOutcome, outcome, closeRunning>>

\* the scope around the enclosing scope aborts or closes with reason r; the
\* enclosing scope's own listener forwards it, and so does the scope's
outerAbort(r) ==
  /\ ~outerAborted
  /\ outerAborted' = TRUE
  /\ IF parentAborted
     THEN UNCHANGED <<parentAborted, parentReason, parentRunning, sigVars>>
     ELSE /\ parentAborted' = TRUE
          /\ parentReason' = r
          /\ parentRunning' = Running
          /\ parentListener(r)
  /\ UNCHANGED <<quietVars, kind, cb, cbResult, tasks, regVars, pc, allLen, raceAt,
                 fnOutcome, outcome, closeRunning>>

\* ---- runInScope ----
\* "return await fn(scope)" for a user-supplied fn (the callback itself)
runInScopeAwaitFn ==
  /\ kind = "runInScope"
  /\ pc = "callback"
  /\ cb \in {"fulfilled", "rejected"}
  /\ fnOutcome' = CallbackOutcome
  /\ pc' = "exit"
  /\ UNCHANGED <<auxVars, kind, cb, cbResult, tasks, task, spawned, aborted, reason, parentVars,
                 regVars, allLen, raceAt, outcome, settleSeq, runningAt, closeRunning>>

\* variant: the abort sits after the await instead of in a finally block, so
\* it is skipped when fn rejects
runInScopeFinally_NoAbortOnReject ==
  /\ kind \in {"runInScope", "sync", "rush"}
  /\ pc = "exit"
  /\ closeRunning' = Running
  /\ IF fnOutcome.state = "rejected" THEN UNCHANGED sigVars ELSE controllerAbort(ScopeClosed)
  /\ outcome' = fnOutcome
  /\ pc' = "done"
  /\ UNCHANGED <<quietVars, kind, cb, cbResult, tasks, parentVars, regVars, allLen, raceAt, fnOutcome>>

\* finally { warnOrphanTasksIfStrict(entries); controller.abort({type:"scope-closed"}) }
\* and the returned promise settles with fn's outcome
runInScopeFinally ==
  /\ kind \in {"runInScope", "sync", "rush"}
  /\ pc = "exit"
  /\ closeRunning' = Running
  /\ controllerAbort(ScopeClosed)
  /\ outcome' = fnOutcome
  /\ pc' = "done"
  /\ UNCHANGED <<quietVars, kind, cb, cbResult, tasks, parentVars, regVars, allLen, raceAt, fnOutcome>>

\* ---- sync ----
\* Promise.all over the first allLen tasks: rejects with the first rejection
\* among them, fulfils once all of them have fulfilled
RejectedIn(n) == {i \in 1..Len(settleSeq) :
                    settleSeq[i] <= n /\ task[settleSeq[i]].status \in {"failed", "canceled"}}

Min(S) == CHOOSE x \in S : \A y \in S : x <= y

PromiseAll(n) ==
  IF RejectedIn(n) # {}
  THEN Rejected(task[settleSeq[Min(RejectedIn(n))]].error)
  ELSE IF \A t \in 1..n : task[t].status = "completed" THEN Fulfilled("all")
  ELSE Pending

\* resumption after "await Promise.all(tasks)"
syncAfterAll ==
  /\ kind = "sync"
  /\ pc = "awaitAll"
  /\ PromiseAll(allLen) # Pending
  /\ IF PromiseAll(allLen).state = "rejected"
     THEN /\ fnOutcome' = PromiseAll(allLen)
          /\ pc' = "exit"
     ELSE /\ pc' = "awaitCallback"
          /\ UNCHANGED fnOutcome
  /\ UNCHANGED <<auxVars, kind, cb, cbResult, tasks, task, spawned, aborted, reason, parentVars,
                 regVars, allLen, raceAt, outcome, settleSeq, runningAt, closeRunning>>

\* resumption after "return await resultPromise"
syncAfterCallback ==
  /\ kind = "sync"
  /\ pc = "awaitCallback"
  /\ cb \in {"fulfilled", "rejected"}
  /\ fnOutcome' = CallbackOutcome
  /\ pc' = "exit"
  /\ UNCHANGED <<auxVars, kind, cb, cbResult, tasks, task, spawned, aborted, reason, parentVars,
                 regVars, allLen, raceAt, outcome, settleSeq, runningAt, closeRunning>>

\* ---- Promise.race(tasks) as race and rush call it ----
\* Tasks already settled when Promise.race is called are reacted to in array
\* order, so the lowest-numbered of them wins; otherwise the first task to
\* settle afterwards wins.  0 while undecided.
PromiseRaceWinner ==
  IF raceAt > 0 THEN Min({settleSeq[i] : i \in 1..raceAt})
  ELSE IF Len(settleSeq) > 0 THEN settleSeq[1]
  ELSE 0

\* ---- race ----
\* resumption after "await callback(ctx)"
raceAfterCallback ==
  /\ kind = "race"
  /\ pc = "callback"
  /\ cb \in {"fulfilled", "rejected"}
  /\ IF cb = "rejected"
     THEN /\ outcome' = Rejected(cbResult)
          /\ pc' = "done"
          /\ UNCHANGED raceAt
     ELSE IF Len(tasks) = 0
     THEN /\ outcome' = Rejected(NoTasksError)
          /\ pc' = "done"
          /\ UNCHANGED raceAt
     ELSE /\ raceAt' = Len(settleSeq)
          /\ pc' = "racing"
          /\ UNCHANGED outcome
  /\ UNCHANGED <<auxVars, kind, cb, cbResult, tasks, task, spawned, aborted, reason, parentVars,
                 regVars, allLen, fnOutcome, settleSeq, runningAt, closeRunning>>

\* the handlers of Promise.race(tasks).then(...): close the scope, pass the outcome on
raceThen ==
  /\ kind = "race"
  /\ pc = "racing"
  /\ PromiseRaceWinner # 0
  /\ LET w == task[PromiseRaceWinner] IN
       /\ closeRunning' = Running
       /\ IF w.status = "completed"
          THEN controllerAbort(ScopeClosed)
          ELSE controllerAbort(w.error)
       /\ outcome' = TaskOutcome(w)
  /\ pc' = "done"
  /\ UNCHANGED <<quietVars, kind, cb, cbResult, tasks, parentVars, regVars, allLen, raceAt, fnOutcome>>

\* ---- rush ----
\* resumption after "await callback(ctx)"
rushAfterCallback ==
  /\ kind = "rush"
  /\ pc = "callback"
  /\ cb \in {"fulfilled", "rejected"}
  /\ IF cb = "rejected"
     THEN /\ fnOutcome' = Rejected(cbResult)
          /\ pc' = "exit"
          /\ UNCHANGED raceAt
     ELSE IF Len(tasks) = 0
     THEN /\ fnOutcome' = Rejected(NoTasksError)
          /\ pc' = "exit"
          /\ UNCHANGED raceAt
     ELSE /\ raceAt' = Len(settleSeq)
          /\ pc' = "racing"
          /\ UNCHANGED fnOutcome
  /\ UNCHANGED <<auxVars, kind, cb, cbResult, tasks, task, spawned, aborted, reason, parentVars,
                 regVars, allLen, outcome, settleSeq, runningAt, closeRunning>>

\* variant: rush closes the scope on the first settlement, as race does
rushAfterRace_CancelLosers ==
  /\ kind = "rush"
  /\ pc = "racing"
  /\ PromiseRaceWinner # 0
  /\ fnOutcome' = TaskOutcome(task[PromiseRaceWinner])
  /\ controllerAbort(ScopeClosed)
  /\ pc' = "allSettled"
  /\ UNCHANGED <<quietVars, kind, cb, cbResult, tasks, parentVars, regVars, allLen,
                 raceAt, outcome, closeRunning>>

\* resumption after "await Promise.race(tasks)"; finally: Promise.allSettled(tasks)
rushAfterRace ==
  /\ kind = "rush"
  /\ pc = "racing"
  /\ PromiseRaceWinner # 0
  /\ fnOutcome' = TaskOutcome(task[PromiseRaceWinner])
  /\ pc' = "allSettled"
  /\ UNCHANGED <<auxVars, kind, cb, cbResult, tasks, task, spawned, aborted, reason, parentVars,
                 regVars, allLen, raceAt, outcome, settleSeq, runningAt, closeRunning>>

\* variant: the finally block does not wait for the remaining tasks
rushAfterAllSettled_NoWait ==
  /\ kind = "rush"
  /\ pc = "allSettled"
  /\ pc' = "exit"
  /\ UNCHANGED <<auxVars, kind, cb, cbResult, tasks, task, spawned, aborted, reason, parentVars,
                 regVars, allLen, raceAt, fnOutcome, outcome, settleSeq, runningAt,
                 closeRunning>>

\* resumption after "await Promise.allSettled(tasks)"
rushAfterAllSettled ==
  /\ kind = "rush"
  /\ pc = "allSettled"
  /\ \A i \in 1..Len(tasks) : Terminal(task[tasks[i]])
  /\ pc' = "exit"
  /\ UNCHANGED <<auxVars, kind, cb, cbResult, tasks, task, spawned, aborted, reason, parentVars,
                 regVars, allLen, raceAt, fnOutcome, outcome, settleSeq, runningAt,
                 closeRunning>>

\* callback(ctx).then(undefined, (err) => { strict-mode warning only }): the
\* reaction to the branch body's promise; the scope is left as it is
branchAfterCallback ==
  /\ kind = "branch"
  /\ pc = "returned"
  /\ cb \in {"fulfilled", "rejected"}
  /\ pc' = "done"
  /\ UNCHANGED <<auxVars, kind, cb, cbResult, tasks, task, spawned, aborted, reason, parentVars,
                 regVars, allLen, raceAt, fnOutcome, outcome, settleSeq, runningAt,
                 closeRunning>>

\* ---- spawn ----
\* resumption of the work spawn hands to runTask, after
\* "await runWithScopeStorage(store, () => callback(ctx))":
\* if (signal.aborted) throw signal.reason; return result
spawnAfterCallback ==
  /\ kind = "spawn"
  /\ pc = "callback"
  /\ cb \in {"fulfilled", "rejected"}
  /\ fnOutcome' = IF cb = "rejected" THEN Rejected(cbResult)
                  ELSE IF aborted THEN Rejected(reason)
                  ELSE Fulfilled(cbResult)
  /\ pc' = "exit"
  /\ UNCHANGED <<auxVars, kind, cb, cbResult, tasks, task, spawned, aborted, reason, parentVars,
                 regVars, allLen, raceAt, outcome, settleSeq, runningAt, closeRunning>>

\* work(signal).then(transitionToCompleted, transitionToFailed) of the spawned Task
spawnWorkSettled ==
  /\ kind = "spawn"
  /\ pc = "exit"
  /\ spawned' = [(IF fnOutcome.state = "fulfilled"
                  THEN transitionToCompleted(spawned, fnOutcome.val)
                  ELSE transitionToFailed(spawned, fnOutcome.val))
                 EXCEPT !.work = "settled"]
  /\ pc' = "done"
  /\ UNCHANGED <<auxVars, kind, cb, cbResult, tasks, task, aborted, reason, parentVars, regVars,
                 allLen, raceAt, fnOutcome, outcome, settleSeq, runningAt, closeRunning>>

\* ---- spawnScope ----
\* resumption after "await callback(ctx)": the async function returns or throws
spawnScopeAfterCallback ==
  /\ kind = "spawnScope"
  /\ pc = "callback"
  /\ cb \in {"fulfilled", "rejected"}
  /\ outcome' = IF cb = "rejected" THEN Rejected(cbResult) ELSE Fulfilled("undefined")
  /\ pc' = "done"
  /\ UNCHANGED <<auxVars, kind, cb, cbResult, tasks, task, spawned, aborted, reason, parentVars,
                 regVars, allLen, raceAt, fnOutcome, settleSeq, runningAt, closeRunning>>

\* ---- the Task's surface in use ----
\* variant: a handler registered on a canceled task is stored, not called
onCancel_AlwaysPush(t) ==
  /\ task[t].status # "none"
  /\ registered < MaxHandlers
  /\ registered' = registered + 1
  /\ task' = [task EXCEPT ![t] =
       [@ EXCEPT !.registrations = @ + 1,
                 !.cancelHandlers = Append(@, task[t].registrations + 1)]]
  /\ UNCHANGED <<auxVars, kind, cb, cbResult, tasks, spawned, aborted, reason, parentVars, entries,
                 parentEntries, pc, allLen, raceAt, fnOutcome, outcome, settleSeq,
                 runningAt, closeRunning>>

\* task.onCancel(handler): the handler is the task's next one in registration
\* order (registrations counts the calls of onCancel on the task)
onCancel(t) ==
  /\ task[t].status # "none"
  /\ registered < MaxHandlers
  /\ registered' = registered + 1
  /\ task' = [task EXCEPT ![t] =
       LET h == task[t].registrations + 1 IN
         IF task[t].status = "canceled"
         THEN [@ EXCEPT !.registrations = h,
                        !.events = Append(@, Event("onCancel", h, task[t].error))]
         ELSE [@ EXCEPT !.registrations = h,
                        !.cancelHandlers = Append(@, h)]]
  /\ UNCHANGED <<auxVars, kind, cb, cbResult, tasks, spawned, aborted, reason, parentVars, entries,
                 parentEntries, pc, allLen, raceAt, fnOutcome, outcome, settleSeq,
                 runningAt, closeRunning>>

Next ==
  \/ runTask(FALSE, 0)
  \/ \E t \in TaskIds, v \in Values : workFulfil(t, v)
  \/ \E t \in TaskIds, e \in Errors : workReject(t, e)
  \/ callbackSuspend
  \/ \E v \in CallbackValues : callbackFulfil(v)
  \/ \E e \in CallbackErrors : callbackReject(e)
  \/ \E r \in UserReasons : scopeAbort(r)
  \/ \E r \in ParentReasons : parentAbort(r)
  \/ \E r \in OuterReasons : outerAbort(r)
  \/ runInScopeAwaitFn
  \/ runInScopeFinally
  \/ syncAfterAll
  \/ syncAfterCallback
  \/ raceAfterCallback
  \/ raceThen
  \/ rushAfterCallback
  \/ rushAfterRace
  \/ rushAfterAllSettled
  \/ branchAfterCallback
  \/ spawnAfterCallback
  \/ spawnWorkSettled
  \/ spawnScopeAfterCallback

HandlerInit == Init /\ kind \in HandlerKinds

\* ---- a combinator called inside a scope that may already be aborted ----
\* the combinators that link their scope to getCurrentScope()
NestedKinds == {"sync", "race", "rush", "branch", "spawn"}

\* as Init, but the enclosing scope's signal is aborted or not when the
\* combinator is called (the callback of the enclosing scope goes on after
\* an abort); the new scope's own signal is fresh
NestedInit ==
  /\ kind \in NestedKinds
  /\ cb = "started"
  /\ cbResult = "none"
  /\ tasks = <<>>
  /\ task = [t \in TaskIds |-> NoTask]
  /\ spawned = IF kind = "spawn" THEN spawnRunTask ELSE NoTask
  /\ aborted = FALSE
  /\ reason = "none"
  /\ parentAborted \in BOOLEAN
  /\ parentReason = IF parentAborted THEN "P1" ELSE "none"
  /\ outerAborted = FALSE
  /\ entries = <<>>
  /\ parentEntries = <<>>
  /\ registered = 0
  /\ pc = "callback"
  /\ allLen = 0
  /\ raceAt = 0
  /\ fnOutcome = Pending
  /\ outcome = Pending
  /\ settleSeq = <<>>
  /\ runningAt = [t \in TaskIds |-> {}]
  /\ closeRunning = {}
  /\ parentRunning = {}
  /\ LoopIdle
  /\ HelperIdle
  /\ DeadlineIdle
  /\ StorageIdle
  /\ DebugIdle
  /\ StrictIdle

NestedNext ==
  \/ runTask(FALSE, 0)
  \/ \E t \in TaskIds, v \in Values : workFulfil(t, v)
  \/ \E t \in TaskIds, e \in Errors : workReject(t, e)
  \/ callbackSuspend
  \/ \E v \in CallbackValues : callbackFulfil(v)
  \/ \E e \in CallbackErrors : callbackReject(e)
  \/ \E r \in UserReasons : scopeAbort(r)
  \/ \E r \in ParentReasons : parentAbort(r)
  \/ runInScopeFinally
  \/ syncAfterAll
  \/ syncAfterCallback
  \/ raceAfterCallback
  \/ raceThen
  \/ rushAfterCallback
  \/ rushAfterRace
  \/ rushAfterAllSettled
  \/ branchAfterCallback
  \/ spawnAfterCallback
  \/ spawnWorkSettled

HandlerNext ==
  \/ \E pt \in BOOLEAN : runTask(pt, MaxHooks)
  \/ \E t \in Running, v \in CallbackValues : workFulfil(t, v)
  \/ \E t \in Running, e \in CallbackErrors : workReject(t, e)
  \/ callbackSuspend
  \/ \E v \in CallbackValues : callbackFulfil(v)
  \/ \E r \in UserReasons \ {"undefined"} : scopeAbort(r)
  \/ \E r \in ParentReasons : parentAbort(r)
  \/ runInScopeAwaitFn
  \/ runInScopeFinally
  \/ branchAfterCallback
  \/ \E t \in TaskIds : onCancel(t)

\* ---- the helpers bound to the scope: ctx.task.sleep / timeout / retry ----
\* The callback starts tasks, then calls one helper and returns what it
\* settles with: async (ctx) => { ...; return await ctx.task.sleep(ms) }.
HelperKinds == {"runInScope", "sync"}

\* work functions handed to task.timeout
TimedWorks == {"plain", "sleep"}

\* the callback reaches "await <helper call>": its first await or a later one
callbackAwaitsHelper ==
  /\ cb \in {"started", "suspended"}
  /\ helper = "none"
  /\ cb' = "suspended"
  /\ IF cb = "started"
     THEN callbackReturned
     ELSE UNCHANGED <<pc, allLen, outcome, entries, parentEntries>>

\* sleep(ms, signal) up to its return
sleepCall ==
  IF aborted
  THEN [NoSleep EXCEPT !.promise = Rejected(reason), !.settles = 1]
  ELSE [NoSleep EXCEPT !.timer = "pending", !.listener = TRUE]

\* the callback calls ctx.task.sleep(ms)
callSleep ==
  /\ callbackAwaitsHelper
  /\ helper' = "sleep"
  /\ sleep' = sleepCall
  /\ UNCHANGED <<sideVars, lim, tmo, rty, kind, cbResult, tasks, task, spawned, aborted, reason,
                 parentVars, registered, raceAt, fnOutcome, settleSeq, runningAt,
                 closeRunning>>

\* the timer callback of sleep: cleanup(); resolve()
sleepTimerFires ==
  /\ sleep.timer = "pending"
  /\ sleep' = [sleepCleanup(sleep) EXCEPT !.timer = "fired",
                                          !.promise = Settle(@, Fulfilled("undefined")),
                                          !.settles = @ + 1]
  /\ UNCHANGED <<quietVars, lim, kind, cb, cbResult, tasks, task, spawned, aborted, reason,
                 parentVars, regVars, pc, allLen, raceAt, fnOutcome, outcome, settleSeq,
                 runningAt, closeRunning>>

\* the promise of the work handed to task.timeout
TimedWork == IF tmo.work = "sleep" THEN sleep.promise ELSE tmo.workP

\* Promise.race([runWork(), timeoutPromise])
RaceOutcome == IF tmo.tp # Pending THEN tmo.race ELSE TimedWork

\* onAbort: clearTimeout(timeoutId), run by the first abort event dispatched
\* while it is attached
TimeoutTimer ==
  IF tmo.timer = "pending" /\ tmo.listener /\ ~tmo.late /\ aborted
  THEN "cleared"
  ELSE tmo.timer

\* the callback calls ctx.task.timeout(ms, work): the timer is set, onAbort
\* attached and work(signal) called
callTimeout(w) ==
  /\ callbackAwaitsHelper
  /\ helper' = "timeout"
  /\ tmo' = [NoTimeout EXCEPT !.pc = "racing", !.timer = "pending", !.listener = TRUE,
                               !.late = aborted, !.work = w]
  /\ sleep' = IF w = "sleep" THEN sleepCall ELSE sleep
  /\ UNCHANGED <<sideVars, lim, rty, kind, cbResult, tasks, task, spawned, aborted, reason,
                 parentVars, registered, raceAt, fnOutcome, settleSeq, runningAt,
                 closeRunning>>

\* the promise of a plain timed work settles with outcome o
timeoutWorkSettles(o) ==
  /\ tmo.work = "plain"
  /\ tmo.workP = Pending
  /\ tmo' = [tmo EXCEPT !.workP = o]
  /\ UNCHANGED <<sideVars, lim, helper, sleep, rty, kind, cb, cbResult, tasks, task, spawned,
                 aborted, reason, parentVars, regVars, pc, allLen, raceAt, fnOutcome,
                 outcome, settleSeq, runningAt, closeRunning>>

\* what Promise.race settles with when the timer callback runs
\* scope.abort({type: "timeout", ms}) and then reject(timeoutError): a work
\* promise that an abort listener rejects is rejected first
timeoutRaceAtExpiry ==
  IF ~aborted /\ tmo.work = "sleep" /\ sleep.listener
  THEN Rejected(abortReason(TimeoutReason))
  ELSE Rejected(TimeoutError)

\* the timer callback of runWithTimeout; timers run with the job queue empty,
\* so not between the settling of the race and the finally block
timeoutTimerFires ==
  /\ tmo.pc = "racing"
  /\ TimeoutTimer = "pending"
  /\ RaceOutcome = Pending
  /\ controllerAbort(abortReason(TimeoutReason))
  /\ tmo' = [tmo EXCEPT !.timer = "fired", !.tp = Rejected(TimeoutError),
                        !.race = timeoutRaceAtExpiry]
  /\ UNCHANGED <<sideVars, helper, rty, kind, cb, cbResult, tasks, parentVars, regVars, pc,
                 allLen, raceAt, fnOutcome, outcome, closeRunning>>

\* resumption after "await Promise.race(...)": finally { clearTimeout(timeoutId);
\* signal.removeEventListener("abort", onAbort) }, then return or rethrow
timeoutReturn ==
  /\ tmo.pc = "racing"
  /\ RaceOutcome # Pending
  /\ tmo' = [tmo EXCEPT !.pc = "done",
                        !.timer = IF TimeoutTimer = "pending" THEN "cleared" ELSE TimeoutTimer,
                        !.listener = FALSE,
                        !.promise = RaceOutcome]
  /\ UNCHANGED <<sideVars, lim, helper, sleep, rty, kind, cb, cbResult, tasks, task, spawned,
                 aborted, reason, parentVars, regVars, pc, allLen, raceAt, fnOutcome,
                 outcome, settleSeq, runningAt, closeRunning>>

\* options.retries
RetryCounts == 0..MaxRetries

\* what an attempt rejects with: an error of its own or, once the signal is
\* aborted, signal.reason
FnErrors == CallbackErrors \cup (IF aborted THEN {reason} ELSE {})

\* the head of the loop body: if (signal.aborted) throw signal.reason;
\* otherwise fn(signal) is called and awaited
retryLoopHead(r) ==
  IF aborted
  THEN [r EXCEPT !.pc = "done", !.promise = Rejected(reason)]
  ELSE [r EXCEPT !.pc = "attempt", !.calls = @ + 1, !.inflight = @ + 1, !.fnP = Pending,
                 !.inAbort = FALSE]

\* the callback calls ctx.task.retry(fn, {retries: n})
callRetry(n) ==
  /\ callbackAwaitsHelper
  /\ helper' = "retry"
  /\ rty' = retryLoopHead([NoRetry EXCEPT !.maxRetries = n])
  /\ UNCHANGED <<sideVars, lim, sleep, tmo, kind, cbResult, tasks, task, spawned, aborted, reason,
                 parentVars, registered, raceAt, fnOutcome, settleSeq, runningAt,
                 closeRunning>>

\* the promise fn(signal) returned settles with outcome o
retryFnSettles(o) ==
  /\ rty.pc = "attempt"
  /\ rty.fnP = Pending
  /\ rty' = [rty EXCEPT !.fnP = o, !.inflight = @ - 1, !.inAbort = aborted]
  /\ UNCHANGED <<sideVars, lim, helper, sleep, tmo, kind, cb, cbResult, tasks, task, spawned,
                 aborted, reason, parentVars, regVars, pc, allLen, raceAt, fnOutcome,
                 outcome, settleSeq, runningAt, closeRunning>>

\* resumption after "return await fn(signal)": the value is returned, or the
\* catch block runs: lastError = e; if (attempt === maxRetries) throw e;
\* otherwise sleep(delayMs, signal) is called and awaited
retryAfterFn ==
  /\ rty.pc = "attempt"
  /\ rty.fnP # Pending
  /\ IF rty.fnP.state = "fulfilled" \/ rty.attempt = rty.maxRetries
     THEN /\ rty' = [rty EXCEPT !.pc = "done", !.promise = rty.fnP]
          /\ UNCHANGED sleep
     ELSE /\ rty' = [rty EXCEPT !.pc = "sleeping"]
          /\ sleep' = sleepCall
  /\ UNCHANGED <<sideVars, lim, helper, tmo, kind, cb, cbResult, tasks, task, spawned,
                 aborted, reason, parentVars, regVars, pc, allLen, raceAt, fnOutcome,
                 outcome, settleSeq, runningAt, closeRunning>>

\* resumption after "await sleep(delayMs, signal)": it throws out of retry,
\* or attempt++ and the next pass of the loop
retryAfterSleep ==
  /\ rty.pc = "sleeping"
  /\ sleep.promise # Pending
  /\ rty' = IF sleep.promise.state = "rejected"
            THEN [rty EXCEPT !.pc = "done", !.promise = sleep.promise]
            ELSE retryLoopHead([rty EXCEPT !.attempt = @ + 1])
  /\ UNCHANGED <<sideVars, lim, helper, sleep, tmo, kind, cb, cbResult, tasks, task, spawned,
                 aborted, reason, parentVars, regVars, pc, allLen, raceAt, fnOutcome,
                 outcome, settleSeq, runningAt, closeRunning>>

\* the promise of the helper the callback called
HelperPromise ==
  IF helper = "sleep" THEN sleep.promise
  ELSE IF helper = "timeout" THEN tmo.promise
  ELSE IF helper = "retry" THEN rty.promise
  ELSE Pending

\* resumption of the callback after "return await <helper call>"
callbackAfterHelper ==
  /\ cb = "suspended"
  /\ HelperPromise # Pending
  /\ cb' = IF HelperPromise.state = "fulfilled" THEN "fulfilled" ELSE "rejected"
  /\ cbResult' = HelperPromise.val
  /\ UNCHANGED <<auxVars, kind, tasks, task, spawned, aborted, reason, parentVars, regVars,
                 pc, allLen, raceAt, fnOutcome, outcome, settleSeq, runningAt, closeRunning>>

\* what a plain timed work or an attempt of retry settles with
TimedOutcomes ==
  {Fulfilled(v) : v \in CallbackValues} \cup {Rejected(e) : e \in FnErrors}

HelperInit == Init /\ kind \in HelperKinds

HelperNext ==
  \/ runTask(FALSE, 0)
  \/ \E t \in Running, v \in CallbackValues : workFulfil(t, v)
  \/ callSleep
  \/ sleepTimerFires
  \/ \E w \in TimedWorks : callTimeout(w)
  \/ \E o \in TimedOutcomes : timeoutWorkSettles(o)
  \/ timeoutTimerFires
  \/ timeoutReturn
  \/ \E n \in RetryCounts : callRetry(n)
  \/ \E o \in TimedOutcomes : retryFnSettles(o)
  \/ retryAfterFn
  \/ retryAfterSleep
  \/ callbackAfterHelper
  \/ \E r \in UserReasons \ {"undefined"} : scopeAbort(r)
  \/ \E r \in ParentReasons : parentAbort(r)
  \/ runInScopeAwaitFn
  \/ runInScopeFinally
  \/ syncAfterAll
  \/ syncAfterCallback

\* the steps the event loop is bound to take: promise reactions already
\* queued and timers that are set; the settling of a user's work or attempt
\* is not among them
HelperFairness ==
  /\ WF_vars(sleepTimerFires)
  /\ WF_vars(timeoutTimerFires)
  /\ WF_vars(timeoutReturn)
  /\ WF_vars(retryAfterFn)
  /\ WF_vars(retryAfterSleep)
  /\ WF_vars(callbackAfterHelper)
  /\ WF_vars(runInScopeAwaitFn \/ runInScopeFinally \/ syncAfterAll \/ syncAfterCallback)

\* ---- the limiter bound to the scope: ctx.task.limit(concurrency, options) ----
\* variant: runNext does not look at the counter
runNext_NoLimit(l) ==
  IF l.queue = <<>> THEN l
  ELSE IF aborted /\ l.cancelQueuedOnAbort THEN limiterDrain(l, reason)
  ELSE [l EXCEPT !.queue = Tail(@), !.active = @ + 1,
                 !.order = Append(@, Head(l.queue)),
                 !.items[Head(l.queue)] =
                    [@ EXCEPT !.st = "running", !.invoked = TRUE, !.started = aborted]]

\* variant: the newest item of the queue is taken (queue.pop())
runNext_Newest(l) ==
  IF l.active >= l.concurrency \/ l.queue = <<>> THEN l
  ELSE IF aborted /\ l.cancelQueuedOnAbort THEN limiterDrain(l, reason)
  ELSE LET n == Len(l.queue) IN
       [l EXCEPT !.queue = SubSeq(@, 1, n - 1), !.active = @ + 1,
                 !.order = Append(@, l.queue[n]),
                 !.items[l.queue[n]] =
                    [@ EXCEPT !.st = "running", !.invoked = TRUE, !.started = aborted]]

\* runNext(): nothing when the limiter is full or idle; the queue is drained
\* when the signal is aborted and cancelQueuedOnAbort; otherwise the oldest
\* item is taken, active++ and item.work(signal) called
runNext(l) ==
  IF l.active >= l.concurrency \/ l.queue = <<>> THEN l
  ELSE IF aborted /\ l.cancelQueuedOnAbort THEN limiterDrain(l, reason)
  ELSE [l EXCEPT !.queue = Tail(@), !.active = @ + 1,
                 !.order = Append(@, Head(l.queue)),
                 !.items[Head(l.queue)] =
                    [@ EXCEPT !.st = "running", !.invoked = TRUE, !.started = aborted]]

\* limit(work), the i-th call of the limiter: rejected at once when the
\* signal is aborted; otherwise queue.push(...) and runNext()
limit(i) ==
  /\ lim.items[i].st = "none"
  /\ \A j \in 1..(i - 1) : lim.items[j].st # "none"
  /\ lim' = IF aborted
            THEN [lim EXCEPT !.items[i] = [@ EXCEPT !.st = "refused", !.called = TRUE,
                                                    !.promise = Rejected(reason)]]
            ELSE runNext([lim EXCEPT !.queue = Append(@, i),
                                     !.items[i] = [@ EXCEPT !.st = "queued"]])
  /\ UNCHANGED <<coreVars, sideVars, helper, sleep, tmo, rty>>

\* the promise item.work(signal) returned settles with outcome o
limiterWorkSettles(i, o) ==
  /\ lim.items[i].st = "running"
  /\ lim.items[i].work = Pending
  /\ lim' = [lim EXCEPT !.items[i].work = o]
  /\ UNCHANGED <<coreVars, sideVars, helper, sleep, tmo, rty>>

\* variant: the finally handler frees the slot and does not call runNext
limiterAfterWork_NoRunNext(i) ==
  /\ lim.items[i].st = "running"
  /\ lim.items[i].work # Pending
  /\ lim' = [lim EXCEPT !.active = @ - 1,
                        !.items[i] = [@ EXCEPT !.st = "done",
                                               !.promise = Settle(@, lim.items[i].work)]]
  /\ UNCHANGED <<coreVars, sideVars, helper, sleep, tmo, rty>>

\* the reactions .then(item.resolve, item.reject).finally(() => { active--;
\* runNext() }), which run in consecutive promise jobs
limiterAfterWork(i) ==
  /\ lim.items[i].st = "running"
  /\ lim.items[i].work # Pending
  /\ lim' = runNext([lim EXCEPT !.active = @ - 1,
                                !.items[i] = [@ EXCEPT !.st = "done",
                                                       !.promise = Settle(@, lim.items[i].work)]])
  /\ UNCHANGED <<coreVars, sideVars, helper, sleep, tmo, rty>>

\* ctx.task.limit(n, {cancelQueuedOnAbort}) has been called in the callback
\* of a sync whose scope is not aborted
LimiterInit ==
  /\ kind = "sync"
  /\ CoreInit
  /\ LoopIdle
  /\ DeadlineIdle
  /\ StorageIdle
  /\ DebugIdle
  /\ StrictIdle
  /\ helper = "none"
  /\ sleep = NoSleep
  /\ tmo = NoTimeout
  /\ rty = NoRetry
  /\ \E n \in 1..MaxConcurrency, c \in BOOLEAN :
       lim = [NoLimiter EXCEPT !.concurrency = n, !.cancelQueuedOnAbort = c]

LimiterNext ==
  \/ \E i \in ItemIds : limit(i)
  \/ \E i \in ItemIds, o \in TimedOutcomes : limiterWorkSettles(i, o)
  \/ \E i \in ItemIds : limiterAfterWork(i)
  \/ \E r \in UserReasons : scopeAbort(r)
  \/ \E r \in ParentReasons : parentAbort(r)

\* the reactions of a settled work promise run, and a work that was started
\* settles (the claim's proviso)
LimiterFairness ==
  \A i \in ItemIds :
    /\ WF_vars(limiterAfterWork(i))
    /\ WF_vars(\E o \in TimedOutcomes : limiterWorkSettles(i, o))

\* ---- timeout budgets: store.deadlineMs ----
\* the value undefined in a numeric field
Undefined == -1

\* a number used as a condition: undefined and 0 are falsy
Truthy(n) == n # Undefined /\ n # 0

MinOf(a, b) == IF a <= b THEN a ELSE b

MaxOf(a, b) == IF a >= b THEN a ELSE b

\* a scope store as the deadline logic sees it.  by: what created it
\* ("scope": a combinator, "timeout": runWork); deadlineMs: its deadline; for a
\* store of runWork, history of the call: ms requested, effectiveMs computed,
\* enclosing: the deadline published when it started, at: Date.now() then
Frame(by, ms, eff, deadlineMs, enclosing, at) ==
  [by |-> by, ms |-> ms, effectiveMs |-> eff, deadlineMs |-> deadlineMs,
   enclosing |-> enclosing, at |-> at]

\* the store of the outermost scope: no deadline
RootFrame == Frame("scope", Undefined, Undefined, Undefined, Undefined, Undefined)

\* getStore()?.deadlineMs
CurrentDeadline == frames[Len(frames)].deadlineMs

\* getScopeDeadlineRemainingMs()
getScopeDeadlineRemainingMs ==
  IF ~Truthy(CurrentDeadline) THEN Undefined ELSE MaxOf(0, CurrentDeadline - now)

\* remainingMs && remainingMs >= 0 ? Math.min(ms, Math.max(0, remainingMs)) : ms
effectiveMs(ms) ==
  LET remainingMs == getScopeDeadlineRemainingMs IN
    IF Truthy(remainingMs) /\ remainingMs >= 0
    THEN MinOf(ms, MaxOf(0, remainingMs))
    ELSE ms

\* Date.now() advances
clockTick ==
  /\ now < MaxTime
  /\ now' = now + 1
  /\ UNCHANGED <<coreVars, loopVars, helperVars, frames, stor, dbg, sm>>

\* task.timeout(ms, work) is called under the current store: runWork
\* publishes {...store, deadlineMs: Date.now() + effectiveMs} for work
deadlineTimeout(ms) ==
  /\ Len(frames) < MaxDepth
  /\ frames' = Append(frames, Frame("timeout", ms, effectiveMs(ms), now + effectiveMs(ms),
                                    CurrentDeadline, now))
  /\ UNCHANGED <<coreVars, loopVars, helperVars, now, stor, dbg, sm>>

\* a combinator is called under the current store: its store takes over
\* parentStore.deadlineMs when that is set
deadlineScope ==
  /\ Len(frames) < MaxDepth
  /\ frames' = Append(frames,
       Frame("scope", Undefined, Undefined,
             IF Truthy(CurrentDeadline) THEN CurrentDeadline ELSE Undefined,
             CurrentDeadline, now))
  /\ UNCHANGED <<coreVars, loopVars, helperVars, now, stor, dbg, sm>>

\* the innermost work or callback is over: its store is no longer current
deadlineReturn ==
  /\ Len(frames) > 1
  /\ frames' = SubSeq(frames, 1, Len(frames) - 1)
  /\ UNCHANGED <<coreVars, loopVars, helperVars, now, stor, dbg, sm>>

DeadlineInit ==
  /\ kind = "sync"
  /\ CoreInit
  /\ LoopIdle
  /\ HelperIdle
  /\ now = 1
  /\ frames = <<RootFrame>>
  /\ StorageIdle
  /\ DebugIdle
  /\ StrictIdle

DeadlineNext ==
  \/ clockTick
  \/ \E ms \in 0..MaxMs : deadlineTimeout(ms)
  \/ deadlineScope
  \/ deadlineReturn

\* ---- branch at the level of the job queue ----
Backends == {"native", "ponyfill"}

\* a promise job: the reaction that completes task t, the resumption of the
\* branch body after its first await, the ponyfill's reaction to the promise
\* fn returned, or the resumption of the calling code after "await branch(...)";
\* timer: whether the promise reacted to was settled by a timer
Job(job, t, timer) == [job |-> job, t |-> t, timer |-> timer]

LogEntry(ev, timer) == [ev |-> ev, timer |-> timer]

loopFixed == <<kind, cbResult, spawned, aborted, reason, parentVars, regVars, pc, allLen,
               raceAt, fnOutcome, settleSeq, runningAt, closeRunning, awaited, backend,
               helperVars, deadlineVars, stor, dbg, sm>>

LoopInit ==
  /\ kind = "branch"
  /\ cb = "started"
  /\ cbResult = "none"
  /\ tasks = <<>>
  /\ task = [t \in TaskIds |-> NoTask]
  /\ spawned = NoTask
  /\ aborted = FALSE
  /\ reason = "none"
  /\ parentAborted = FALSE
  /\ parentReason = "none"
  /\ outerAborted = FALSE
  /\ entries = <<>>
  /\ parentEntries = <<>>
  /\ registered = 0
  /\ pc = "callback"
  /\ allLen = 0
  /\ raceAt = 0
  /\ fnOutcome = Pending
  /\ outcome = Pending
  /\ settleSeq = <<>>
  /\ runningAt = [t \in TaskIds |-> {}]
  /\ closeRunning = {}
  /\ parentRunning = {}
  /\ stack = "body"
  /\ mq = <<>>
  /\ timers = {}
  /\ awaited \in BOOLEAN
  /\ backend \in Backends
  /\ log = <<>>
  /\ HelperIdle
  /\ DeadlineIdle
  /\ StorageIdle
  /\ DebugIdle
  /\ StrictIdle

\* the branch body calls ctx.task(work): runTask calls work(signal) and attaches
\* its reactions; a work without a pending await returns a settled promise, so
\* the reaction is queued at once; otherwise it waits for a timer
loopRunTask(immediate) ==
  /\ stack = "body"
  /\ Len(tasks) < MaxTasks
  /\ LET t == Len(tasks) + 1 IN
       /\ tasks' = Append(tasks, t)
       /\ task' = [task EXCEPT ![t] = [NoTask EXCEPT !.status = "running", !.work = "pending"]]
       /\ IF immediate
          THEN /\ mq' = Append(mq, Job("complete", t, FALSE))
               /\ UNCHANGED timers
          ELSE /\ timers' = timers \cup {t}
               /\ UNCHANGED mq
  /\ UNCHANGED <<loopFixed, cb, outcome, stack, log>>

\* the branch body reaches its first await: on a settled promise (its
\* resumption is queued at once) or on one a timer settles; callback(ctx)
\* returns its promise to branch
loopBodyAwait(settled) ==
  /\ stack = "body"
  /\ cb' = "suspended"
  /\ stack' = "branch"
  /\ IF settled
     THEN /\ mq' = Append(mq, Job("cont", 0, FALSE))
          /\ UNCHANGED timers
     ELSE /\ timers' = timers \cup {0}
          /\ UNCHANGED mq
  /\ UNCHANGED <<loopFixed, tasks, task, outcome, log>>

\* the branch body returns without awaiting
loopBodyReturn ==
  /\ stack = "body"
  /\ cb' = "fulfilled"
  /\ stack' = "branch"
  /\ UNCHANGED <<loopFixed, tasks, task, outcome, mq, timers, log>>

\* variant: branch returns the callback's promise
branchReturns_ReturnsCallback ==
  /\ outcome' = IF cb = "fulfilled" THEN Fulfilled("undefined") ELSE Pending
  /\ UNCHANGED mq

\* return runWithScopeStorage(store, () => { callback(ctx).then(...); return
\* Promise.resolve() }): the native storage hands the resolved promise
\* through; the ponyfill's run returns wrapPromise's value.then(...), a promise
\* still pending, whose reaction is queued
branchReturns ==
  IF backend = "native"
  THEN /\ outcome' = Fulfilled("undefined")
       /\ UNCHANGED mq
  ELSE /\ outcome' = Pending
       /\ mq' = Append(mq, Job("wrap", 0, FALSE))

\* branch returns to the calling code
loopBranchReturn ==
  /\ stack = "branch"
  /\ branchReturns
  /\ stack' = "caller"
  /\ UNCHANGED <<loopFixed, cb, tasks, task, timers, log>>

\* the code following the branch call: run at once when the call is not
\* awaited, else resumed by a job once the returned promise is fulfilled
loopCallerContinues ==
  /\ stack = "caller"
  /\ stack' = "idle"
  /\ IF ~awaited
     THEN /\ log' = Append(log, LogEntry("next", FALSE))
          /\ UNCHANGED mq
     ELSE IF outcome.state = "fulfilled"
     THEN /\ mq' = Append(mq, Job("next", 0, FALSE))
          /\ UNCHANGED log
     ELSE UNCHANGED <<mq, log>>
  /\ UNCHANGED <<loopFixed, cb, tasks, task, outcome, timers>>

\* the event loop runs the oldest promise job
loopRunJob(v) ==
  /\ stack = "idle"
  /\ mq # <<>>
  /\ LET j == Head(mq) IN
       IF j.job = "complete"
       THEN /\ task' = [task EXCEPT ![j.t] =
                          [transitionToCompleted(task[j.t], v) EXCEPT !.work = "settled"]]
            /\ log' = Append(log, LogEntry("completed", j.timer))
            /\ mq' = Tail(mq)
            /\ UNCHANGED <<cb, outcome>>
       ELSE IF j.job = "cont"
       THEN /\ cb' = "fulfilled"
            /\ log' = Append(log, LogEntry("cont", j.timer))
            /\ mq' = Tail(mq)
            /\ UNCHANGED <<task, outcome>>
       ELSE IF j.job = "wrap"
       THEN /\ outcome' = Fulfilled("undefined")
            /\ mq' = IF awaited THEN Append(Tail(mq), Job("next", 0, FALSE)) ELSE Tail(mq)
            /\ UNCHANGED <<cb, task, log>>
       ELSE /\ log' = Append(log, LogEntry("next", FALSE))
            /\ mq' = Tail(mq)
            /\ UNCHANGED <<cb, task, outcome>>
  /\ UNCHANGED <<loopFixed, tasks, stack, timers>>

\* with the job queue empty, a timer fires and settles its promise, whose
\* reaction is queued
loopTimerFires(x) ==
  /\ stack = "idle"
  /\ mq = <<>>
  /\ x \in timers
  /\ timers' = timers \ {x}
  /\ mq' = <<IF x = 0 THEN Job("cont", 0, TRUE) ELSE Job("complete", x, TRUE)>>
  /\ UNCHANGED <<loopFixed, cb, tasks, task, outcome, stack, log>>

LoopNext ==
  \/ \E immediate \in BOOLEAN : loopRunTask(immediate)
  \/ \E settled \in BOOLEAN : loopBodyAwait(settled)
  \/ loopBodyReturn
  \/ loopBranchReturn
  \/ loopCallerContinues
  \/ \E v \in Values : loopRunJob(v)
  \/ \E x \in {0} \cup TaskIds : loopTimerFires(x)

\* ---- the async-context storage: createPonyfillStorage beside AsyncLocalStorage ----
\* The same program runs over both implementations at once: "current" is the
\* ponyfill's variable, "als" the store AsyncLocalStorage holds for the code
\* that is running; a continuation carries the native context it was created in.
StoreOf(i) == IF i = 1 THEN "S1" ELSE "S2"

\* who = 0 is the code outside every run
Observation(who, how, s) ==
  [who |-> who, how |-> how, ponyfill |-> s.current, native |-> s.als]

\* getStore() is evaluated and what it returns is noted
getStore(s, who, how) == [s EXCEPT !.seen = @ \cup {Observation(who, how, s)}]

ContJob(i, k, ctx) == [type |-> "continuation", fn |-> i, seg |-> k, ctx |-> ctx]

ReactJob(i) == [type |-> "reaction", fn |-> i, seg |-> 0, ctx |-> NoStore]

\* the promise fn i returned settles: the handlers attached to it are queued
settleFn(s, i) ==
  [s EXCEPT !.settled[i] = TRUE,
            !.jobs = IF s.reaction[i].registered THEN Append(@, ReactJob(i)) ELSE @]

\* wrapPromise(store, value, prev) with value the promise of fn i:
\* value.then(onFulfilled, onRejected)
wrapPromise(s, i, prev) ==
  [s EXCEPT !.reaction[i] = [registered |-> TRUE, prev |-> prev],
            !.jobs = IF s.settled[i] THEN Append(@, ReactJob(i)) ELSE @]

RECURSIVE run(_, _), segment(_, _, _)

\* fn i runs from its k-th await (k = 0: from its start) to the next await or
\* to its end: it evaluates getStore(), fn1 calls run(S2, fn2) where the
\* program says so and evaluates getStore() again, then awaits an already
\* settled promise (its continuation is queued) or returns / throws
segment(s, i, k) ==
  LET how == IF k = 0 THEN "sync" ELSE "continuation"
      s1  == getStore(s, i, how)
      s2  == IF i = 1 /\ s.prog.nestAt = k THEN getStore(run(s1, 2), i, how) ELSE s1
  IN IF k < s.prog.awaits[i]
     THEN [s2 EXCEPT !.jobs = Append(@, ContJob(i, k + 1, s2.als))]
     ELSE settleFn(s2, i)

\* run(StoreOf(i), fn i): ponyfill "prev = current; current = store; try {
\* return wrapPromise(store, fn(), prev) } finally { current = prev }" and
\* als.run(store, fn), which gives fn the store and the caller its own back
run(s, i) ==
  LET prev    == s.current
      outside == s.als
      s1      == segment([s EXCEPT !.current = StoreOf(i), !.als = StoreOf(i)], i, 0)
      s2      == wrapPromise(s1, i, prev)
  IN [s2 EXCEPT !.current = prev, !.als = outside]

\* the handlers of wrapPromise, fulfilled or rejected alike:
\* current = store; try { return ... } finally { current = prev }
wrapPromiseHandler(s, i) == [s EXCEPT !.current = s.reaction[i].prev]

\* the script calls run(S1, fn1) and evaluates getStore() when run has returned
storageCallRun(a1, a2, e1, e2, n) ==
  /\ stor.phase = "idle"
  /\ n <= a1
  /\ (n = -1) => (a2 = 0 /\ e2 = "return")
  /\ LET start == [stor EXCEPT !.prog = [awaits |-> <<a1, a2>>, ends |-> <<e1, e2>>,
                                         nestAt |-> n]]
     IN stor' = [getStore(run(start, 1), 0, "sync") EXCEPT !.phase = "loop"]
  /\ UNCHANGED <<coreVars, loopVars, helperVars, deadlineVars, dbg, sm>>

\* the event loop runs the next microtask: a continuation of fn1 or fn2 in
\* the context it was created in, or a handler of wrapPromise
storageRunJob ==
  /\ stor.phase = "loop"
  /\ stor.jobs # <<>>
  /\ LET job  == Head(stor.jobs)
         rest == [stor EXCEPT !.jobs = Tail(@)]
     IN stor' = IF job.type = "reaction"
                THEN wrapPromiseHandler(rest, job.fn)
                ELSE [segment([rest EXCEPT !.als = job.ctx], job.fn, job.seg)
                        EXCEPT !.als = NoStore]
  /\ UNCHANGED <<coreVars, loopVars, helperVars, deadlineVars, dbg, sm>>

\* a job of the code outside every run (a timer, a reaction it registered
\* before run) evaluates getStore()
storageOutside ==
  /\ stor.phase = "loop"
  /\ stor' = getStore([stor EXCEPT !.als = NoStore], 0, "continuation")
  /\ UNCHANGED <<coreVars, loopVars, helperVars, deadlineVars, dbg, sm>>

StorageInit ==
  /\ kind = "sync"
  /\ CoreInit
  /\ LoopIdle
  /\ HelperIdle
  /\ DeadlineIdle
  /\ StorageIdle
  /\ DebugIdle
  /\ StrictIdle

StorageNext ==
  \/ \E a1, a2 \in 0..MaxAwaits, e1, e2 \in {"return", "throw"}, n \in -1..MaxAwaits :
       storageCallRun(a1, a2, e1, e2, n)
  \/ storageRunJob
  \/ storageOutside


\* ------------------------------------------------------------------
\* The debugger (debug.ts): one module-level scopeStack for the whole program.

\* getCurrentScope(): the top of the stack; id 0 stands for undefined
getCurrentScope(d) ==
  IF d.scopeStack = <<>> THEN [id |-> 0, type |-> "none"]
  ELSE d.scopeStack[Len(d.scopeStack)]

\* an emitted TaskDebugEvent; "by" is the combinator call whose code emitted it
DebugEvent(k, id, ty, c) == [kind |-> k, scopeId |-> id, type |-> ty, by |-> c]

\* pushScope(type), called by combinator call c
pushScope(d, c, ty) ==
  LET id == d.nextScopeId + 1 IN
  [d EXCEPT !.nextScopeId = id,
            !.scopeStack = Append(@, [id |-> id, type |-> ty]),
            !.events = Append(@, DebugEvent("scopeOpened", id, ty, c)),
            !.combs[c] = [st |-> "open", type |-> ty, scopeId |-> id]]

\* popScope(), called by combinator call c: pops whatever is on top
popScope(d, c) ==
  IF d.scopeStack = <<>> THEN [d EXCEPT !.combs[c].st = "done"]
  ELSE LET node == getCurrentScope(d) IN
       [d EXCEPT !.scopeStack = SubSeq(@, 1, Len(@) - 1),
                 !.events = Append(@, DebugEvent("scopeClosed", node.id, node.type, c)),
                 !.combs[c].st = "done"]

\* registerTask(), called from a task created through combinator call c's context
registerTask(d, c) ==
  [d EXCEPT !.nextTaskId = @ + 1,
            !.events = Append(@, DebugEvent("taskRegistered", getCurrentScope(d).id, "none", c))]

\* a combinator is called: sync / race push their scope at the start
debugOpen(c, ty) ==
  /\ dbg.combs[c].st = "none"
  /\ dbg' = pushScope(dbg, c, ty)
  /\ UNCHANGED <<coreVars, loopVars, helperVars, deadlineVars, stor, sm>>

\* the callback of an open combinator creates a task (ctx.task -> runTask -> registerTask)
debugTask(c) ==
  /\ dbg.combs[c].st = "open"
  /\ dbg.nextTaskId < MaxTasks
  /\ dbg' = registerTask(dbg, c)
  /\ UNCHANGED <<coreVars, loopVars, helperVars, deadlineVars, stor, sm>>

\* the combinator's promise settles: its finally block calls popScope()
debugClose(c) ==
  /\ dbg.combs[c].st = "open"
  /\ dbg' = popScope(dbg, c)
  /\ UNCHANGED <<coreVars, loopVars, helperVars, deadlineVars, stor, sm>>

DebugInit ==
  /\ kind = "sync"
  /\ CoreInit
  /\ LoopIdle
  /\ HelperIdle
  /\ DeadlineIdle
  /\ StorageIdle
  /\ DebugIdle
  /\ StrictIdle

DebugNext ==
  \/ \E c \in CombIds, ty \in DebugKinds : debugOpen(c, ty)
  \/ \E c \in CombIds : debugTask(c)
  \/ \E c \in CombIds : debugClose(c)


\* ------------------------------------------------------------------
\* Strict mode enabled: the checks of the library, in one scope.

\* strictModeWarn throws after warning
Throws(s) == s.enabled /\ s.policy = "throw"

\* strictModeWarn(message), called at site: no-op when strict mode is off
strictModeWarn(s, site) == IF s.enabled THEN [s EXCEPT !.warned = @ \cup {site}] ELSE s

\* the entries whose task has not settled
Orphans(s) == {t \in TaskIds : s.st[t] = "running"}

\* warnOrphanTasksIfStrict(entries), called at site
warnOrphanTasksIfStrict(s, site) == IF Orphans(s) # {} THEN strictModeWarn(s, site) ELSE s

\* the running tasks with no onCancel handler
Ignored(s) == {t \in Orphans(s) : s.nh[t] = 0}

\* controller.abort(reason) of the scope: the listener of every running task
\* calls transitionToCanceled, which sets the status, then warns if there is no
\* handler - and, throwing there, never reaches rejectThenable
strictControllerAbort(s) ==
  IF s.aborted THEN s
  ELSE LET w == IF Ignored(s) # {} THEN strictModeWarn(s, "transitionToCanceled") ELSE s
           settling == {t \in Orphans(s) : ~(Throws(s) /\ s.nh[t] = 0)}
       IN [w EXCEPT !.aborted = TRUE,
                    !.st = [t \in TaskIds |-> IF s.st[t] = "running" THEN "canceled" ELSE s.st[t]],
                    !.first = IF @ = 0 /\ settling # {} THEN Min(settling) ELSE @,
                    !.thrown = IF Throws(s) /\ Ignored(s) # {} THEN @ \cup {"listener"} ELSE @]

\* the call is made: branch without a parent scope warns first, branch with
\* one returns Promise.resolve() at once
strictEnter ==
  /\ sm.pc = "start"
  /\ sm' = IF sm.call = "branchNoParent"
           THEN LET w == strictModeWarn(sm, "branch") IN
                IF Throws(sm) THEN [w EXCEPT !.pc = "done", !.thrown = @ \cup {"caller"}]
                ELSE [w EXCEPT !.pc = "callback"]
           ELSE IF sm.call = "branch"
           THEN [sm EXCEPT !.pc = "callback", !.promise = Fulfilled("undefined")]
           ELSE [sm EXCEPT !.pc = "callback"]
  /\ UNCHANGED <<coreVars, loopVars, helperVars, deadlineVars, stor, dbg>>

\* runTask(work, options) with n onCancel handlers registered on the new task
strictRunTask(n) ==
  /\ sm.pc = "callback"
  /\ \E t \in TaskIds :
       /\ sm.st[t] = "none"
       /\ \A u \in TaskIds : u < t => sm.st[u] # "none"
       /\ sm' =
            IF sm.call = "runTask"
            THEN LET w == strictModeWarn(sm, "runTask") IN
                 IF Throws(sm) THEN [w EXCEPT !.pc = "done", !.thrown = @ \cup {"caller"}]
                 ELSE [w EXCEPT !.st[t] = "running", !.nh[t] = n]
            ELSE IF sm.aborted
            THEN LET w == strictModeWarn(sm, "transitionToCanceled") IN
                 [w EXCEPT !.st[t] = "canceled",
                           !.first = IF @ = 0 /\ ~Throws(sm) THEN t ELSE @,
                           !.thrown = IF Throws(sm) THEN @ \cup {"caller"} ELSE @]
            ELSE [sm EXCEPT !.st[t] = "running", !.nh[t] = n]
  /\ UNCHANGED <<coreVars, loopVars, helperVars, deadlineVars, stor, dbg>>

\* the work of a running task settles
strictTaskSettles(t, o) ==
  /\ sm.st[t] = "running"
  /\ sm' = [sm EXCEPT !.st[t] = o, !.first = IF @ = 0 THEN t ELSE @]
  /\ UNCHANGED <<coreVars, loopVars, helperVars, deadlineVars, stor, dbg>>

\* user code calls scope.abort()
strictScopeAbort ==
  /\ sm.pc \in {"callback", "racing"}
  /\ sm.call \in {"runInScope", "race", "branch", "branchNoParent"}
  /\ ~sm.aborted
  /\ sm' = strictControllerAbort(sm)
  /\ UNCHANGED <<coreVars, loopVars, helperVars, deadlineVars, stor, dbg>>

\* branch with a parent: the parent's signal aborts; the listener aborts the
\* branch scope and then looks for orphans
strictParentAbort ==
  /\ sm.call = "branch"
  /\ sm.pc \in {"callback", "open"}
  /\ ~sm.aborted
  /\ sm' = warnOrphanTasksIfStrict(strictControllerAbort(sm), "branch.parentAbort")
  /\ UNCHANGED <<coreVars, loopVars, helperVars, deadlineVars, stor, dbg>>

\* the promise callback(ctx) returned settles
strictCallbackSettles(o) ==
  /\ sm.pc = "callback"
  /\ sm' =
       CASE sm.call \in {"runInScope", "branchNoParent"} ->
              [sm EXCEPT !.pc = "finally", !.fn = o]
         [] sm.call = "race" ->
              IF o = "rejected" THEN [sm EXCEPT !.pc = "done", !.fn = o, !.promise = Rejected("error")]
              ELSE IF \A t \in TaskIds : sm.st[t] = "none"
              THEN [sm EXCEPT !.pc = "done", !.fn = o,
                              !.promise = Rejected("race: callback did not start any tasks")]
              ELSE [sm EXCEPT !.pc = "racing", !.fn = o]
         [] sm.call = "branch" ->
              LET w == IF o = "rejected" THEN strictModeWarn(sm, "branch.callback") ELSE sm IN
              [w EXCEPT !.pc = "open", !.fn = o,
                        !.thrown = IF o = "rejected" /\ Throws(sm)
                                   THEN @ \cup {"unhandled"} ELSE @]
         [] OTHER -> [sm EXCEPT !.pc = "done", !.fn = o]
  /\ UNCHANGED <<coreVars, loopVars, helperVars, deadlineVars, stor, dbg>>

\* runInScope's finally: warnOrphanTasksIfStrict(entries), then
\* controller.abort({type: "scope-closed"})
strictFinally ==
  /\ sm.pc = "finally"
  /\ LET w == warnOrphanTasksIfStrict(sm, "runInScope") IN
     sm' = IF Throws(sm) /\ Orphans(sm) # {}
           THEN [w EXCEPT !.pc = "done", !.promise = Rejected(StrictModeError)]
           ELSE [strictControllerAbort(w) EXCEPT
                   !.pc = "done",
                   !.promise = IF sm.fn = "rejected" THEN Rejected("error")
                               ELSE Fulfilled("value")]
  /\ UNCHANGED <<coreVars, loopVars, helperVars, deadlineVars, stor, dbg>>

\* race: the handlers on Promise.race(tasks) run once a task has settled:
\* warnOrphanTasksIfStrict(entries), then controller.abort(...)
strictRaceSettles ==
  /\ sm.pc = "racing"
  /\ sm.first # 0
  /\ LET w == warnOrphanTasksIfStrict(sm, "race") IN
     sm' = IF Throws(sm) /\ Orphans(sm) # {}
           THEN [w EXCEPT !.pc = "done", !.promise = Rejected(StrictModeError)]
           ELSE [strictControllerAbort(w) EXCEPT
                   !.pc = "done",
                   !.promise = IF sm.st[sm.first] = "completed" THEN Fulfilled("value")
                               ELSE Rejected("error")]
  /\ UNCHANGED <<coreVars, loopVars, helperVars, deadlineVars, stor, dbg>>

StrictInit ==
  /\ kind = "sync"
  /\ CoreInit
  /\ LoopIdle
  /\ HelperIdle
  /\ DeadlineIdle
  /\ StorageIdle
  /\ DebugIdle
  /\ sm \in {[NoStrict EXCEPT !.enabled = e, !.policy = p, !.call = c, !.pc = "start"] :
               e \in BOOLEAN, p \in StrictPolicies, c \in StrictCalls}

StrictNext ==
  \/ strictEnter
  \/ \E n \in 0..MaxHandlers : strictRunTask(n)
  \/ \E t \in TaskIds, o \in {"completed", "failed"} : strictTaskSettles(t, o)
  \/ strictScopeAbort
  \/ strictParentAbort
  \/ \E o \in {"fulfilled", "rejected"} : strictCallbackSettles(o)
  \/ strictFinally
  \/ strictRaceSettles

\* ======================= properties =======================
Settled == outcome.state # "pending"

Created == 1..Len(tasks)

FailedIdx == {i \in 1..Len(settleSeq) : task[settleSeq[i]].status = "failed"}

FirstFailed == settleSeq[Min(FailedIdx)]

C2_AllTerminalAtSettle ==
  (kind \in {"sync", "race", "rush"} /\ Settled) =>
    \A t \in Created : Terminal(task[t])

\* C3: once a task is completed, failed or canceled, no step changes its
\* status, result or error (so the status leaves running at most once).
C3_TerminalIsFinal ==
  [][\A t \in TaskIds :
       Terminal(task[t]) =>
         /\ task'[t].status = task[t].status
         /\ task'[t].result = task[t].result
         /\ task'[t].error = task[t].error]_vars

\* a canceled task whose work settled afterwards, and a task that had
\* completed before the scope was aborted
C3_Witness ==
  /\ \E t \in TaskIds : task[t].status = "canceled" /\ task[t].work = "settled"
  /\ \E t \in TaskIds : task[t].status = "completed" /\ aborted

\* C4: in sync, if the first task to fail fails with E while other tasks are
\* running, then sync rejects with exactly E and, when sync has settled, none
\* of those other tasks is running and those that were canceled carry the
\* reason scope-closed (no one else having aborted the scope).
C4_SyncRejectsWithFirstFailure ==
  (/\ kind = "sync"
   /\ Settled
   /\ FailedIdx # {}
   /\ runningAt[FirstFailed] # {}
   /\ reason = ScopeClosed) =>
    /\ outcome = Rejected(task[FirstFailed].error)
    /\ \A u \in runningAt[FirstFailed] :
         /\ task[u].status # "running"
         /\ task[u].status = "canceled" => task[u].error = ScopeClosed

\* C5: in sync, once the callback's promise has rejected, sync does not wait
\* for a task to settle on its own: whenever sync is still at its
\* "await Promise.all(tasks)", that promise is already settled, so sync's
\* next step (towards closing the scope and rejecting) is enabled.
C5_SyncDoesNotWaitAfterCallbackRejects ==
  (kind = "sync" /\ cb = "rejected" /\ pc = "awaitAll") =>
    PromiseAll(allLen) # Pending

\* C6: sync fulfils only when every task started through its context, before
\* or after the callback's first suspension point, is completed.
C6_SyncFulfilsAfterAllCompleted ==
  (kind = "sync" /\ outcome.state = "fulfilled") =>
    \A t \in Created : task[t].status = "completed"

\* C7: when race or rush settles after its callback fulfilled, its outcome is
\* the outcome of the task that settled first in time.
C7_FirstSettledInTimeWins ==
  (kind \in {"race", "rush"} /\ Settled /\ cb = "fulfilled" /\ Len(tasks) > 0) =>
    /\ Len(settleSeq) > 0
    /\ outcome = TaskOutcome(task[settleSeq[1]])

\* C8: when race has settled on a task's settlement, every task that was
\* still pending when race closed its scope is canceled with reason
\* scope-closed.
C8_RaceLosersScopeClosed ==
  (kind = "race" /\ Settled) =>
    \A u \in closeRunning : task[u].status = "canceled" /\ task[u].error = ScopeClosed

EventIdx(tk, ev) == {i \in 1..Len(tk.events) : tk.events[i].ev = ev}

\* every handler in cancelHandlers has been called, before thenablePromise was rejected
HandlersRanBeforeReject(tk) ==
  /\ EventIdx(tk, "reject") # {}
  /\ \A k \in 1..Len(tk.cancelHandlers) :
       \E i \in EventIdx(tk, "onCancel") :
         /\ tk.events[i].h = tk.cancelHandlers[k]
         /\ \A j \in EventIdx(tk, "reject") : i < j

\* C12: in branch with a parent, the step on which the enclosing scope aborts
\* or closes with reason r leaves the branch scope aborted, with the same r
\* when it was still open, and cancels every task of the branch that was
\* running (with r, or with parent-canceled for a task given a parentTask),
\* each task's onCancel handlers having run before its awaitable is rejected.
C12_BranchFollowsParent ==
  [][(kind = "branch" /\ ~parentAborted /\ parentAborted') =>
       /\ aborted'
       /\ ~aborted => reason' = parentReason'
       /\ \A t \in Running :
            /\ task'[t].status = "canceled"
            /\ task'[t].error = parentListenerReason(task[t], parentReason')
            /\ HandlersRanBeforeReject(task'[t])]_vars

\* the enclosing scope aborted while two branch tasks were running, one of
\* them with two handlers registered
C12_Witness ==
  /\ kind = "branch"
  /\ parentAborted
  /\ reason = parentReason
  /\ Cardinality(parentRunning) = 2
  /\ \E t \in parentRunning : Len(task[t].cancelHandlers) = 2
  /\ \A t \in parentRunning : task[t].status = "canceled"

\* C13: in branch with a parent, once the branch body's promise has settled
\* and branch has reacted to it, with the parent still open, no task of the
\* branch is running.
C13_BranchClosesWhenBodySettles ==
  (kind = "branch" /\ pc = "done" /\ ~parentAborted) =>
    \A t \in Created : task[t].status # "running"

\* the step is the one on which the enclosing scope's signal becomes aborted
ParentAborts == ~parentAborted /\ parentAborted'

\* every task that was running is canceled with reason r by the step
RunningCanceledWith(r) ==
  /\ \A t \in Running : task'[t].status = "canceled" /\ task'[t].error = r
  /\ spawned.status = "running" => spawned'.status = "canceled" /\ spawned'.error = r

C15_FireAndForgetOutlivesScope ==
  [][(kind \in {"spawnTask", "spawnScope"}) =>
       /\ (ParentAborts \/ (~outerAborted /\ outerAborted')) =>
            /\ task' = task
            /\ aborted' = aborted
            /\ reason' = reason
       /\ \A t \in TaskIds :
            /\ (task'[t].status = "canceled" /\ task[t].status # "canceled") =>
                 /\ kind = "spawnScope"
                 /\ aborted'
                 /\ task'[t].error = reason'
                 /\ reason' \in {abortReason(r) : r \in UserReasons}
            /\ (task[t].status = "running" /\ task'[t].work = "settled") =>
                 (\/ task'[t].status = "completed" /\ task'[t].result \in Values
                  \/ task'[t].status = "failed" /\ task'[t].error \in Errors)]_vars

\* a task that was running when the enclosing scope closed has completed since
C15_Witness ==
  /\ kind \in {"spawnTask", "spawnScope"}
  /\ parentAborted
  /\ cb = "fulfilled"
  /\ \E t \in parentRunning : task[t].status = "completed"
  /\ \E t \in parentRunning : task[t].status = "running"

TheEvent(tk, ev) == CHOOSE i \in EventIdx(tk, ev) : TRUE

\* C17: for a canceled task, every onTaskCancel hook was called while status
\* still read "running", then status became "canceled", then the handlers
\* registered before the cancellation were called in registration order, and
\* only then was the awaitable rejected.
C17_CancelOrder ==
  \A t \in TaskIds :
    LET tk == task[t] IN
      tk.status = "canceled" =>
        /\ Cardinality({i \in EventIdx(tk, "status") : tk.events[i].arg = "canceled"}) = 1
        /\ Cardinality(EventIdx(tk, "reject")) = 1
        /\ Cardinality(EventIdx(tk, "onTaskCancel")) >= tk.hooks
        /\ \A i \in EventIdx(tk, "onTaskCancel") :
             /\ tk.events[i].arg = "running"
             /\ i < TheEvent(tk, "status")
        /\ \A k \in 1..Len(tk.cancelHandlers) :
             \E i \in EventIdx(tk, "onCancel") :
               /\ tk.events[i].h = tk.cancelHandlers[k]
               /\ TheEvent(tk, "status") < i
               /\ i < TheEvent(tk, "reject")
               /\ \A l \in 1..Len(tk.cancelHandlers), j \in EventIdx(tk, "onCancel") :
                    (k < l /\ tk.events[j].h = tk.cancelHandlers[l]) => i < j

\* a task with hooks and two handlers was canceled while running
C17_Witness ==
  \E t \in TaskIds :
    /\ task[t].status = "canceled"
    /\ task[t].work # "none"
    /\ task[t].hooks >= 2
    /\ Len(task[t].cancelHandlers) = 2

\* number of calls of the task's handler with registration number h
Calls(tk, h) == Cardinality({i \in EventIdx(tk, "onCancel") : tk.events[i].h = h})

\* the handlers registered on the task while it was not canceled
Stored(tk) == {tk.cancelHandlers[k] : k \in 1..Len(tk.cancelHandlers)}

\* C18: every onCancel registration is called at most once; a handler
\* registered before the task was canceled has been called exactly once, with
\* the stored reason, if the task is canceled and not at all otherwise; a
\* handler registered on a canceled task has been called when onCancel
\* returns, once, with the stored reason; no handler is called for a
\* completed or failed task.
C18_HandlerOncePerRegistration ==
  \A t \in TaskIds :
    LET tk == task[t] IN
      /\ \A i \in EventIdx(tk, "onCancel") :
           tk.events[i].h \in 1..tk.registrations /\ tk.events[i].arg = tk.error
      /\ \A h \in 1..tk.registrations :
           /\ Calls(tk, h) <= 1
           /\ h \in Stored(tk) => Calls(tk, h) = (IF tk.status = "canceled" THEN 1 ELSE 0)
           /\ h \notin Stored(tk) => (tk.status = "canceled" /\ Calls(tk, h) = 1)
      /\ tk.status \in {"completed", "failed"} => EventIdx(tk, "onCancel") = {}

\* a canceled task with one handler registered while it ran and one
\* registered after it was canceled, both called
C18_Witness ==
  \E t \in TaskIds :
    /\ task[t].status = "canceled"
    /\ Len(task[t].cancelHandlers) = 1
    /\ Calls(task[t], 1) = 1
    /\ Calls(task[t], 2) = 1

\* C19: runTask called with options.signal already aborted returns a task
\* that is canceled, with the signal's reason or, when parentTask is given,
\* with parent-canceled, and whose work is not invoked then or later.
C19_BornCanceled ==
  [][/\ (aborted /\ Len(tasks') = Len(tasks) + 1) =>
          LET tk == task'[Len(tasks')] IN
            /\ tk.status = "canceled"
            /\ tk.error = (IF tk.parentTask THEN ParentCanceled ELSE reason)
            /\ tk.work = "none"
     /\ \A t \in TaskIds :
          (task[t].status = "canceled" /\ task[t].work = "none") =>
            /\ task'[t].work = "none"
            /\ task'[t].status = "canceled"
            /\ task'[t].error = task[t].error]_vars

\* one task born canceled with the signal's reason, one with parent-canceled
C19_Witness ==
  /\ \E t \in TaskIds :
       /\ task[t].status = "canceled" /\ task[t].work = "none"
       /\ task[t].parentTask /\ task[t].error = ParentCanceled
  /\ \E t \in TaskIds :
       /\ task[t].status = "canceled" /\ task[t].work = "none"
       /\ ~task[t].parentTask /\ task[t].error = reason

\* C20: in runInScope, the step on which scope.abort(r) aborts the open
\* scope cancels every running task with exactly r (parent-canceled for a
\* task given a parentTask); and once the signal is aborted, no later step -
\* the close on exit included - changes signal.reason or calls an onCancel
\* handler that was already called.
C20_AbortThenCloseIsIdempotent ==
  [][kind = "runInScope" =>
       /\ (~aborted /\ aborted' /\ parentAborted' = parentAborted /\ pc' = pc) =>
            /\ reason' \in UserReasons
            /\ \A t \in Running :
                 /\ task'[t].status = "canceled"
                 /\ task'[t].error = parentListenerReason(task[t], reason')
       /\ aborted => (aborted' /\ reason' = reason)
       /\ aborted =>
            \A t \in TaskIds : \A h \in 1..MaxHandlers :
              Calls(task[t], h) = 1 => Calls(task'[t], h) = 1]_vars

\* scope.abort("R1") canceled a running task that had a handler, and
\* runInScope has closed the scope since
C20_Witness ==
  /\ kind = "runInScope"
  /\ pc = "done"
  /\ reason = "R1"
  /\ \E t \in TaskIds :
       /\ task[t].status = "canceled"
       /\ task[t].error = "R1"
       /\ Len(task[t].cancelHandlers) >= 1
       /\ Calls(task[t], 1) = 1

\* positions in the log of the code following the branch call
NextIdx == {i \in 1..Len(log) : log[i].ev = "next"}

\* C11 as stated: once branch has been called with a parent scope, no
\* continuation of the branch body past its first await and no completion of
\* a branch task happens before the code following the branch call has run.
C11_NextRunsFirst ==
  \A i \in 1..Len(log) :
    log[i].ev \in {"cont", "completed"} => \E j \in NextIdx : j < i

\* C11 amended: branch returns in the synchronous run of its call, while the
\* callback's promise may still be pending, and the promise it returns is
\* already fulfilled under the native storage; code that follows the call
\* without awaiting it runs before every continuation of the branch body and
\* every completion of a branch task; code that awaits the returned promise
\* runs before every continuation and completion that waits for a timer.
C11_NextRunsBeforeTimers ==
  /\ (stack \in {"body", "branch"}) => log = <<>>
  /\ (stack \in {"caller", "idle"} /\ backend = "native") => outcome.state = "fulfilled"
  /\ ~awaited =>
       \A i \in 1..Len(log) :
         log[i].ev \in {"cont", "completed"} => \E j \in NextIdx : j < i
  /\ awaited =>
       \A i \in 1..Len(log) :
         log[i].timer => \E j \in NextIdx : j < i

\* the awaiting caller resumed after a task completion and the body's
\* continuation that were queued during the call, and before a task that
\* waited for a timer completed; the body had not settled when branch returned
C11_Witness ==
  /\ awaited
  /\ Len(log) = 4
  /\ log[1].ev \in {"cont", "completed"}
  /\ log[2].ev \in {"cont", "completed"}
  /\ log[3].ev = "next"
  /\ log[4].timer

\* C21: a sleep settles exactly once: fulfilled by its timer, or rejected with
\* signal.reason by an abort that comes first; once settled its timer is not
\* pending and its listener is detached; called on an aborted signal it is
\* rejected with signal.reason and has no timer.
C21_SleepSettlesOnce ==
  /\ sleep.settles <= 1
  /\ (sleep.promise # Pending) <=> (sleep.settles = 1)
  /\ (sleep.promise.state = "fulfilled") <=> (sleep.timer = "fired")
  /\ sleep.promise.state = "rejected" =>
        aborted /\ sleep.promise.val = reason /\ sleep.timer \in {"none", "cleared"}
  /\ sleep.promise # Pending => ~sleep.listener /\ sleep.timer # "pending"
  /\ sleep.promise = Pending /\ sleep # NoSleep =>
        sleep.listener /\ sleep.timer = "pending" /\ ~aborted
  /\ sleep.timer = "none" => sleep = NoSleep \/ sleep.promise = Rejected(reason)

\* a sleep was aborted while its timer was pending, and the caller got the reason
C21_Witness ==
  /\ helper = "sleep"
  /\ sleep.timer = "cleared"
  /\ sleep.promise = Rejected(reason)
  /\ outcome = Rejected(reason)

\* C22: a timeout aborts the scope exactly when its timer fires before the work
\* settles.  When the timer fires the scope is aborted (with the timeout
\* reason if it was not aborted before), every task then running is canceled
\* with that reason, and the timeout returns rejected with the TimeoutError;
\* when the work settles first the timer is cleared, the scope is not aborted
\* with the timeout reason and the timeout returns the work's outcome.
C22_TimeoutAbortsIffTimerFires ==
  [][/\ (tmo.timer # "fired" /\ tmo'.timer = "fired") =>
          /\ aborted'
          /\ ~aborted => /\ reason' = TimeoutReason
                         /\ \A t \in Running : /\ task'[t].status = "canceled"
                                                /\ task'[t].error = TimeoutReason
     /\ (tmo.pc = "racing" /\ tmo'.pc = "done") =>
          IF tmo.timer = "fired"
          THEN tmo'.promise = Rejected(TimeoutError)
          ELSE /\ tmo'.timer = "cleared"
               /\ reason # TimeoutReason
               /\ tmo'.promise = TimedWork]_vars

\* C23: a timeout started while a deadline D is published runs with
\* effectiveMs = min(ms, max(0, D - now)) and publishes a deadline no later
\* than D, whatever budget remains, zero included.
C23_BudgetTightens ==
  \A i \in 1..Len(frames) :
    frames[i].by = "timeout" /\ frames[i].enclosing # Undefined =>
      /\ frames[i].effectiveMs =
           MinOf(frames[i].ms, MaxOf(0, frames[i].enclosing - frames[i].at))
      /\ frames[i].deadlineMs <= frames[i].enclosing

\* C25: retry calls fn at most 1 + retries times and one call at a time; it
\* fulfils with the value of the first attempt that succeeds; when all
\* 1 + retries attempts fail it rejects with the last attempt's error; once the
\* signal is aborted no attempt is started and retry rejects with signal.reason
\* (an attempt that had settled before the abort still counts).
C25_Retry ==
  [][/\ rty'.calls <= 1 + rty'.maxRetries
     /\ rty'.inflight <= 1
     /\ rty'.calls > rty.calls => ~aborted
     /\ (rty.promise = Pending /\ rty'.promise # Pending) =>
          IF aborted /\ (rty.pc # "attempt" \/ rty.inAbort)
          THEN rty'.promise = Rejected(reason)
          ELSE /\ rty.pc = "attempt"
               /\ rty'.promise = rty.fnP
               /\ \/ rty.fnP.state = "fulfilled"
                  \/ rty.fnP.state = "rejected" /\ rty.calls = 1 + rty.maxRetries]_vars

\* C24: when the signal is aborted while the promise of a sleep, timeout or
\* retry is pending, that promise eventually rejects with signal.reason,
\* whatever the work in flight does, and no further attempt is started.
C24_AbortRejectsPending ==
  /\ (aborted /\ helper # "none" /\ HelperPromise = Pending)
       ~> (HelperPromise = Rejected(reason))
  /\ [][aborted => rty'.calls = rty.calls]_vars

\* the calls of the limiter whose work was started and has not settled
InFlight == {i \in ItemIds : lim.items[i].invoked /\ lim.items[i].work = Pending}

\* C26: at most `concurrency` work functions of a limiter are started and not
\* yet settled, whatever the calls, completions, failures and aborts.
C26_LimiterBound ==
  /\ Cardinality(InFlight) <= lim.concurrency
  /\ lim.active <= lim.concurrency
  /\ Cardinality({i \in ItemIds : lim.items[i].st = "running"}) = lim.active

\* the limiter is full, a call is waiting, and an earlier one has failed
C26_Witness ==
  /\ Cardinality(InFlight) = lim.concurrency
  /\ lim.queue # <<>>
  /\ \E i \in ItemIds : lim.items[i].st = "done" /\ lim.items[i].promise.state = "rejected"

\* C27: with cancelQueuedOnAbort, once the signal is aborted no call waits in
\* the queue: those that waited are rejected with signal.reason and their
\* work is never invoked; and with or without it, a call made after the abort
\* is rejected with signal.reason at once, never queued and never invoked.
C27_AbortDrainsAndRefuses ==
  /\ lim.cancelQueuedOnAbort /\ aborted => lim.queue = <<>>
  /\ \A i \in ItemIds :
       /\ lim.items[i].st = "drained" =>
            /\ lim.cancelQueuedOnAbort /\ aborted
            /\ lim.items[i].promise = Rejected(reason)
            /\ ~lim.items[i].invoked
       /\ lim.cancelQueuedOnAbort => ~lim.items[i].started
       /\ lim.items[i].called <=> lim.items[i].st = "refused"
       /\ lim.items[i].st = "refused" =>
            /\ aborted
            /\ lim.items[i].promise = Rejected(reason)
            /\ ~lim.items[i].invoked
            /\ \A k \in 1..Len(lim.queue) : lim.queue[k] # i
       /\ (aborted /\ lim.items[i].st \in {"queued", "running", "done"}) =>
            ~lim.items[i].called

\* a waiting call was rejected by the abort and a later call was refused
C27_Witness ==
  /\ lim.cancelQueuedOnAbort
  /\ \E i, j \in ItemIds :
       /\ lim.items[i].st = "drained"
       /\ lim.items[j].st = "refused"
       /\ lim.items[j].promise = Rejected(reason)

\* the tasks the timeout's abort canceled: those running when its timer fired
CanceledByTimeout ==
  {t \in TaskIds : task[t].status = "canceled" /\ task[t].error = TimeoutReason}

\* C30: inside sync the first failure that is not a cancellation becomes
\* sync's rejection, never the cancellation reason of a task: when a timeout
\* expires while tasks of the scope are running (no work of a task having
\* failed), sync rejects with the TimeoutError.
C30_SyncRejectsWithTimeoutError ==
  (/\ kind = "sync"
   /\ outcome # Pending
   /\ tmo.timer = "fired"
   /\ CanceledByTimeout # {})
  => outcome = Rejected(TimeoutError)

\* the entry points that open a scope of their own
ScopeKinds == {"runInScope", "sync", "race", "rush", "branch", "spawn", "spawnScope"}

\* the callback's promise has settled and no work of a task is outstanding
WorkSettled ==
  /\ cb \in {"fulfilled", "rejected"}
  /\ \A t \in Created : task[t].work # "pending"
  /\ spawned.work # "pending"

\* C28: every scope that was opened is eventually closed (its signal aborted)
\* once its callback and the work of its tasks have settled, whether the
\* callback fulfilled or rejected; and on the step that closes it every task
\* in its entries is terminal (the abort has reached it).
C28_EveryScopeCloses ==
  /\ (kind \in ScopeKinds /\ WorkSettled) ~> aborted
  /\ [][(kind \in ScopeKinds /\ ~aborted /\ aborted') =>
         \A t \in Created : Terminal(task'[t])]_vars

\* what getStore() returns under AsyncLocalStorage: inside fn i the store of
\* its run, outside every run no store
Expected(o) == IF o.who = 0 THEN NoStore ELSE StoreOf(o.who)

\* C29: the ponyfill storage behaves like the native one: wherever getStore()
\* is evaluated - in fn before or after an await, in the code outside the
\* run, with nested runs, with fn returning or throwing - it returns under
\* the ponyfill what it returns under AsyncLocalStorage: the store of the run
\* inside fn, the previous store outside.
C29_PonyfillMatchesNative ==
  \A o \in stor.seen : o.ponyfill = o.native /\ o.ponyfill = Expected(o)

\* the native storage alone does what the claim describes
NativeAsExpected == \A o \in stor.seen : o.native = Expected(o)

\* number of calls of the task's h-th lifecycle hook's onTaskCancel
CancelHookCalls(tk, h) ==
  Cardinality({i \in EventIdx(tk, "onTaskCancel") : tk.events[i].h = h})

\* C33: the onTaskCancel hook is called exactly once for every task that is
\* canceled - a running task that is aborted, or a task born canceled because
\* its signal was already aborted - and never for a task that is running,
\* completed or failed.
C33_OnTaskCancelOnce ==
  \A t \in TaskIds : \A h \in 1..task[t].hooks :
    CancelHookCalls(task[t], h) = (IF task[t].status = "canceled" THEN 1 ELSE 0)

\* C35: the limiter starts work in submission order: of two works that were
\* both started, the one submitted first had its work function invoked first.
C35_LimiterFifo ==
  \A a, b \in 1..Len(lim.order) : a < b => lim.order[a] < lim.order[b]

\* with one slot, a work was submitted while another ran and a third after
\* one had completed, and all three were started
C35_Witness ==
  /\ lim.concurrency = 1
  /\ Len(lim.order) >= 3
  /\ lim.items[1].st = "done"
  /\ lim.items[2].st = "done"

\* the works the limiter has started and not yet released (active counts them)
Occupied == {i \in ItemIds : lim.items[i].st = "running"}

UserAbort == "user-abort"

\* the step is a call of scope.abort() with no argument on the open scope
AbortWithoutReason ==
  /\ kind \in ScopeKinds
  /\ ~aborted
  /\ aborted'
  /\ reason' = abortReason("undefined")

\* C34: for the scope handed to the callback of runInScope, sync, race, rush,
\* branch, spawn and spawnScope, scope.abort() with no argument cancels every
\* running task of the scope with the reason {type: "user-abort"}.
C34_AbortWithoutReasonIsUserAbort ==
  [][AbortWithoutReason =>
       \A t \in Running : task'[t].status = "canceled" /\ task'[t].error = UserAbort]_vars

\* C36: whenever the signal of the enclosing scope is aborted, the signal of
\* the sync, race, rush, branch or spawn scope linked to it is aborted too -
\* also when the enclosing scope was aborted before the combinator was called -
\* and a task started while the enclosing scope is aborted is born canceled,
\* its work never invoked.
C36_ChildFollowsParent ==
  /\ [](parentAborted => aborted)
  /\ [][(parentAborted /\ Len(tasks') = Len(tasks) + 1) =>
         LET tk == task'[Len(tasks')] IN tk.status = "canceled" /\ tk.work = "none"]_vars

\* Every task is given a name (task(name, work)); task t has the name t.
\* The tasks whose rejection is the scope signal's reason object itself: those
\* canceled through their listener on scope.signal or born canceled, without
\* parentTask (with parentTask each gets a {type: "parent-canceled"} of its own)
SharesReason(t) == task[t].status = "canceled" /\ ~task[t].parentTask

\* positions in settleSeq, the order of the transitions, of those tasks
ReasonWriters == {i \in 1..Len(settleSeq) : SharesReason(settleSeq[i])}

\* withName(reason) assigns reason.taskName = taskName on the object it is
\* given: the property holds the name written last
ReasonTaskName ==
  settleSeq[CHOOSE i \in ReasonWriters : \A j \in ReasonWriters : j <= i]

\* the taskName on the rejection the awaiter of canceled task t receives
ObservedTaskName(t) == IF SharesReason(t) THEN ReasonTaskName ELSE t

\* C37: the rejection the awaiter of a canceled named task observes carries
\* that task's own name as taskName, also when several tasks of the scope
\* are canceled by the same abort.
C37_OwnTaskName ==
  \A t \in TaskIds : task[t].status = "canceled" => ObservedTaskName(t) = t

Spec == Init /\ [][Next]_vars

NestedSpec == NestedInit /\ [][NestedNext]_vars

\* every continuation the combinators have queued as a promise reaction runs
Fairness ==
  /\ WF_vars(runInScopeAwaitFn)
  /\ WF_vars(runInScopeFinally)
  /\ WF_vars(syncAfterAll)
  /\ WF_vars(syncAfterCallback)
  /\ WF_vars(raceAfterCallback)
  /\ WF_vars(raceThen)
  /\ WF_vars(rushAfterCallback)
  /\ WF_vars(rushAfterRace)
  /\ WF_vars(rushAfterAllSettled)
  /\ WF_vars(branchAfterCallback)
  /\ WF_vars(spawnAfterCallback)
  /\ WF_vars(spawnWorkSettled)
  /\ WF_vars(spawnScopeAfterCallback)

LiveSpec == Spec /\ Fairness

HandlerSpec == HandlerInit /\ [][HandlerNext]_vars

LoopSpec == LoopInit /\ [][LoopNext]_vars

HelperSpec == HelperInit /\ [][HelperNext]_vars

HelperLiveSpec == HelperSpec /\ HelperFairness

LimiterSpec == LimiterInit /\ [][LimiterNext]_vars

LimiterLiveSpec == LimiterSpec /\ LimiterFairness

DeadlineSpec == DeadlineInit /\ [][DeadlineNext]_vars

StorageSpec == StorageInit /\ [][StorageNext]_vars

DebugSpec == DebugInit /\ [][DebugNext]_vars

StrictSpec == StrictInit /\ [][StrictNext]_vars


\* C38: with debug enabled and two or more combinators in flight, every
\* scopeClosed event carries the id and type of the combinator that is
\* finishing, every opened scope is closed at most once and a finished
\* combinator's scope exactly once, and every taskRegistered event names as
\* parentScopeId the scope of the combinator whose context created the task.
ClosedCount(id) ==
  Cardinality({i \in 1..Len(dbg.events) :
                 dbg.events[i].kind = "scopeClosed" /\ dbg.events[i].scopeId = id})

C38_DebugEventsNameOwnScope ==
  /\ \A i \in 1..Len(dbg.events) :
       LET e == dbg.events[i] IN
       /\ e.kind = "scopeClosed" =>
            e.scopeId = dbg.combs[e.by].scopeId /\ e.type = dbg.combs[e.by].type
       /\ e.kind = "taskRegistered" => e.scopeId = dbg.combs[e.by].scopeId
  /\ \A c \in CombIds :
       /\ dbg.combs[c].st = "open" => ClosedCount(dbg.combs[c].scopeId) = 0
       /\ dbg.combs[c].st = "done" => ClosedCount(dbg.combs[c].scopeId) = 1


\* the tasks whose abort listener is attached to scope.signal: runTask adds
\* one for every task it starts on a signal that is not yet aborted, and
\* nothing detaches it
TaskListeners == {t \in 1..Len(tasks) : TaskSignal = "scope" /\ task[t].work # "none"}

\* C32: every abort listener the library installs is removed once its
\* operation has finished: a task that completed, failed or was canceled has
\* no listener left on the scope's signal, a settled sleep and a settled
\* timeout have detached their onAbort, so the listeners on a long-lived
\* scope's signal are never more than the operations still running.
C32_ListenersRemoved ==
  /\ \A t \in TaskListeners : task[t].status = "running"
  /\ sleep.promise # Pending => ~sleep.listener
  /\ tmo.promise # Pending => ~tmo.listener
  /\ Cardinality(TaskListeners) <= Cardinality(Running)


\* the four points at which the specification lets a strict-mode check fire:
\* runTask without signal outside a scope, a task canceled with no onCancel
\* handler, runInScope's exit, branch without a parent scope
FourPoints == {"runTask", "transitionToCanceled", "runInScope", "branch"}

\* C31: with strict mode enabled a check (warning or StrictModeError) fires
\* at the four points only; with strict mode disabled no warning is raised
\* and no StrictModeError is thrown anywhere.
C31_StrictChecksAtFourPoints ==
  /\ sm.warned \subseteq FourPoints
  /\ ~sm.enabled => sm.warned = {} /\ sm.thrown = {} /\ sm.promise # Rejected(StrictModeError)

\* C40: under the throw policy, when runInScope's exit or race's settlement
\* finds a running task and the returned promise rejects with
\* StrictModeError, the scope has been aborted and no task is left running.
C40_AbortedBeforeStrictModeError ==
  (sm.call \in {"runInScope", "race"} /\ sm.promise = Rejected(StrictModeError)) =>
    sm.aborted /\ Orphans(sm) = {}

============================================================================
